---- MODULE Spec2Model ----
(***************************************************************************)
(* A model of the mdeno script-side runtime layer: the bridge registrars   *)
(* (filesystem, OS, errors, encoding), the assembler that builds the Deno  *)
(* namespace, path-or-URL resolution, and the URL / URLSearchParams pair.  *)
(*                                                                         *)
(* Strings whose characters matter (URL pathnames, base64 text, query      *)
(* strings) are sequences of code points; names of properties, functions   *)
(* and objects are TLA+ strings.                                           *)
(***************************************************************************)
EXTENDS Integers, Sequences, FiniteSets, TLC

VARIABLES
    heap,        \* object id -> [ext, props]: the script-visible object graph
    booted,      \* the start-up modules that have run
    profile,     \* "full" or "minimal": which assembler the host bundles
    installed,   \* the namespace object as the assembler left it (history)
    native,      \* the host's internal record (Symbol.for("mdeno.internal"))
    nsOps,       \* number of script operations performed on the object graph
    lastOp,      \* the last script operation on the object graph and its outcome
    platform,    \* navigator.platform
    fsArg,       \* the path-or-URL value a script passes to a file operation
    fsCall,      \* the file operation invoked and how it ended
    nativeLog,   \* the native filesystem calls made, in order
    urlQuery,    \* the query of the URL object u, without its '?'
    views,       \* the parameter list of each URLSearchParams view made for u
    live,        \* the view u keeps as its searchParams (0: none made yet)
    handles,     \* the views the script got from reading u.searchParams, in order
    urlOps,      \* number of script operations on u and its views
    lastUrlOp,   \* the last script operation on u or a view
    encArg,      \* the value a script passes to btoa or atob
    encRes,      \* the btoa / atob call made and how it ended
    errs,        \* the errors a script has constructed, in order
    env,         \* the environment of the process, as the native layer holds it
    envStart,    \* the environment when the OS registrar ran
    envCall,     \* the last Deno.env call (or change from outside) and its result
    envPrev,     \* the one before it
    noColorValue, \* the OS registrar's constant of that name (Absent before it ran)
    argv,        \* the elements of the array __internal.args
    argvFrozen,  \* whether the native layer made that array frozen
    argvStart,   \* its elements when the OS registrar ran
    osRead,      \* the last read of Deno.noColor, os.noColor or Deno.args
    permStatus,  \* the private fields of the assembler's permissionStatus
    permLog,     \* what a script did with Deno.permissions and what it got
    script,      \* the statements of a script, in program order
    pc,          \* the statement the script is at
    running,     \* whether the process is alive
    ran,         \* the statements started so far
    exitLog,     \* the codes passed to the native exit
    parseArgs,   \* the input and base a script passes to URL's three entry points
    parseSeen,   \* what the constructor, canParse and parse gave, once called
    bootRoots,   \* the global roots the host has created
    bootProfile, \* the profile of the assembler whose setup is run
    bootSetup,   \* module -> "pending", "done" or the error its setup threw
    bootSeen,    \* module -> the roots that existed when its setup ran
    bootCall,    \* the first call of a registered operation and its outcome
    compHref,    \* the serialization a URL object holds
    compSet      \* the component assigned last: value, href before, times

nsVars == <<heap, booted, profile, installed, native, nsOps, lastOp>>

fsVars == <<platform, fsArg, fsCall, nativeLog>>

urlVars == <<urlQuery, views, live, handles, urlOps, lastUrlOp>>

encVars == <<encArg, encRes>>

errVars == <<errs>>

envVars == <<env, envStart, envCall, envPrev>>

osVars == <<noColorValue, argv, argvFrozen, argvStart, osRead>>

permVars == <<permStatus, permLog>>

exitVars == <<script, pc, running, ran, exitLog>>

parseVars == <<parseArgs, parseSeen>>

bootVars == <<bootRoots, bootProfile, bootSetup, bootSeen, bootCall>>

compVars == <<compHref, compSet>>

\* What the actions of each part leave alone.
nsOther == <<fsVars, urlVars, encVars, errVars, envVars, permVars, exitVars,
    parseVars, bootVars, compVars>>
nsRest == <<nsOther, osVars>>
fsRest == <<nsVars, urlVars, encVars, errVars, envVars, osVars, permVars, exitVars,
    parseVars, bootVars, compVars>>
urlRest == <<nsVars, fsVars, encVars, errVars, envVars, osVars, permVars, exitVars,
    parseVars, bootVars, compVars>>
encRest == <<nsVars, fsVars, urlVars, errVars, envVars, osVars, permVars, exitVars,
    parseVars, bootVars, compVars>>
errRest == <<nsVars, fsVars, urlVars, encVars, envVars, osVars, permVars, exitVars,
    parseVars, bootVars, compVars>>
envRest == <<nsVars, fsVars, urlVars, encVars, errVars, osVars, permVars, exitVars,
    parseVars, bootVars, compVars>>
permRest == <<nsVars, fsVars, urlVars, encVars, errVars, envVars, osVars, exitVars,
    parseVars, bootVars, compVars>>
exitRest == <<nsVars, fsVars, urlVars, encVars, errVars, envVars, osVars, permVars,
    parseVars, bootVars, compVars>>
parseRest == <<nsVars, fsVars, urlVars, encVars, errVars, envVars, osVars, permVars,
    exitVars, bootVars, compVars>>
bootRest == <<nsVars, fsVars, urlVars, encVars, errVars, envVars, osVars, permVars,
    exitVars, parseVars, compVars>>
compRest == <<nsVars, fsVars, urlVars, encVars, errVars, envVars, osVars, permVars,
    exitVars, parseVars, bootVars>>

vars == <<heap, booted, profile, installed, native, nsOps, lastOp,
          platform, fsArg, fsCall, nativeLog,
          urlQuery, views, live, handles, urlOps, lastUrlOp, encArg, encRes,
          errs, env, envStart, envCall, envPrev,
          noColorValue, argv, argvFrozen, argvStart, osRead,
          permStatus, permLog, script, pc, running, ran, exitLog,
          parseArgs, parseSeen,
          bootRoots, bootProfile, bootSetup, bootSeen, bootCall, compHref, compSet>>

(***************************************************************************)
(* Bounds                                                                  *)
(***************************************************************************)
MaxScriptOps == 2
\* Longest URL pathname enumerated, not counting its leading slash.
MaxPathLen == 3
\* Script operations on one URL and its views, and views a script holds.
MaxUrlOps == 4
MaxHandles == 2
\* Longest string enumerated as a btoa / atob argument.
MaxStrLen == 3
\* Most errors a script constructs.
MaxErrors == 2
\* Longest argument vector a script grows Deno.args to.
MaxArgs == 2
\* Most operations a script makes on Deno.permissions and its status.
MaxPermOps == 2
\* Longest script run for Deno.exit.
MaxScriptLen == 4

(***************************************************************************)
(* ECMAScript ordinary objects: property descriptors and the internal      *)
(* methods the start-up code and scripts reach through assignment, delete  *)
(* and Object.defineProperty.                                              *)
(***************************************************************************)
Absent == "absent"

DataProp(v, w, e, c) ==
    [kind |-> "data", value |-> v, get |-> Absent, set |-> Absent,
     writable |-> w, enumerable |-> e, configurable |-> c]

AccessorProp(g, s, e, c) ==
    [kind |-> "accessor", value |-> Absent, get |-> g, set |-> s,
     writable |-> FALSE, enumerable |-> e, configurable |-> c]

\* A property created by an object literal or by plain assignment.
PlainProp(v) == DataProp(v, TRUE, TRUE, TRUE)

EmptyProps == [k \in {} |-> PlainProp(Absent)]

\* An object literal { k: lit[k], ... }.
Literal(lit) == [ext |-> TRUE, props |-> [k \in DOMAIN lit |-> PlainProp(lit[k])]]

HasOwn(h, o, k) == o \in DOMAIN h /\ k \in DOMAIN h[o].props

\* obj[k] for an own data property, undefined otherwise.
GetValue(h, o, k) ==
    IF HasOwn(h, o, k) /\ h[o].props[k].kind = "data"
    THEN h[o].props[k].value ELSE Absent

\* The keys for-in / Object.keys report.
EnumerableKeys(h, o) == {k \in DOMAIN h[o].props : h[o].props[k].enumerable}

WithProp(h, o, k, p) ==
    [h EXCEPT ![o].props =
        [x \in DOMAIN h[o].props \cup {k} |-> IF x = k THEN p ELSE h[o].props[x]]]

WithoutProp(h, o, k) ==
    [h EXCEPT ![o].props = [x \in DOMAIN h[o].props \ {k} |-> h[o].props[x]]]

\* OrdinarySet: does obj[k] = v succeed?  (No setter in the model has an effect.)
CanSet(h, o, k) ==
    IF HasOwn(h, o, k)
    THEN IF h[o].props[k].kind = "data"
         THEN h[o].props[k].writable
         ELSE h[o].props[k].set # Absent
    ELSE h[o].ext

SetProp(h, o, k, v) ==
    IF ~CanSet(h, o, k) THEN h
    ELSE IF HasOwn(h, o, k)
         THEN IF h[o].props[k].kind = "data"
              THEN [h EXCEPT ![o].props[k].value = v]
              ELSE h
         ELSE WithProp(h, o, k, PlainProp(v))

\* OrdinaryDelete.
CanDelete(h, o, k) == HasOwn(h, o, k) => h[o].props[k].configurable

DeleteProp(h, o, k) ==
    IF HasOwn(h, o, k) /\ h[o].props[k].configurable THEN WithoutProp(h, o, k) ELSE h

\* A descriptor argument of Object.defineProperty: `has` lists the fields present.
IsAccessorDesc(d) == "get" \in d.has \/ "set" \in d.has
IsDataDesc(d) == "value" \in d.has \/ "writable" \in d.has

\* ValidateAndApplyPropertyDescriptor, the validation half.
CanDefine(h, o, k, d) ==
    IF ~HasOwn(h, o, k) THEN h[o].ext
    ELSE LET cur == h[o].props[k] IN
         \/ cur.configurable
         \/ /\ ~("configurable" \in d.has /\ d.configurable)
            /\ ~("enumerable" \in d.has /\ d.enumerable # cur.enumerable)
            /\ (IsAccessorDesc(d) => cur.kind = "accessor")
            /\ (IsDataDesc(d) => cur.kind = "data")
            /\ IF cur.kind = "accessor"
               THEN /\ ("get" \in d.has => d.get = cur.get)
                    /\ ("set" \in d.has => d.set = cur.set)
               ELSE \/ cur.writable
                    \/ /\ ~("writable" \in d.has /\ d.writable)
                       /\ ("value" \in d.has => d.value = cur.value)

\* ValidateAndApplyPropertyDescriptor, the applying half.
AppliedProp(h, o, k, d) ==
    LET fresh == ~HasOwn(h, o, k)
        cur == IF fresh THEN DataProp(Absent, FALSE, FALSE, FALSE) ELSE h[o].props[k]
        e == IF "enumerable" \in d.has THEN d.enumerable ELSE cur.enumerable
        c == IF "configurable" \in d.has THEN d.configurable ELSE cur.configurable
    IN  IF IsAccessorDesc(d)
        THEN AccessorProp(
                 IF "get" \in d.has THEN d.get
                 ELSE IF cur.kind = "accessor" THEN cur.get ELSE Absent,
                 IF "set" \in d.has THEN d.set
                 ELSE IF cur.kind = "accessor" THEN cur.set ELSE Absent,
                 e, c)
        ELSE IF IsDataDesc(d) \/ cur.kind = "data"
        THEN DataProp(
                 IF "value" \in d.has THEN d.value
                 ELSE IF cur.kind = "data" THEN cur.value ELSE Absent,
                 IF "writable" \in d.has THEN d.writable
                 ELSE IF cur.kind = "data" THEN cur.writable ELSE FALSE,
                 e, c)
        ELSE AccessorProp(cur.get, cur.set, e, c)

DefineProp(h, o, k, d) ==
    IF CanDefine(h, o, k, d) THEN WithProp(h, o, k, AppliedProp(h, o, k, d)) ELSE h

Desc(has, v, g, s, w, e, c) ==
    [has |-> has, value |-> v, get |-> g, set |-> s,
     writable |-> w, enumerable |-> e, configurable |-> c]

\* Object.assign(target, source literal): target[k] = source[k] for every key.
AssignAll(h, o, lit) ==
    [h EXCEPT ![o].props =
        [k \in DOMAIN h[o].props \cup DOMAIN lit |->
            IF k \in DOMAIN lit
            THEN SetProp(h, o, k, lit[k])[o].props[k]
            ELSE h[o].props[k]]]

(***************************************************************************)
(* Start-up: the host's bridge root, the registrars and the assembler.     *)
(***************************************************************************)
Profiles == {"full", "minimal"}

\* globalThis.__mdeno__ as the host embedding creates it, with its sub-trees.
HostHeap ==
    [global |-> [ext |-> TRUE,
                 props |-> [k \in {"__mdeno__"} |-> DataProp("mdeno", TRUE, FALSE, TRUE)]],
     mdeno  |-> Literal([fs |-> "fsNs", os |-> "osNs", errors |-> "errorsHost"]),
     fsNs   |-> [ext |-> TRUE, props |-> EmptyProps],
     osNs   |-> [ext |-> TRUE, props |-> EmptyProps],
     errorsHost |-> [ext |-> TRUE, props |-> EmptyProps]]

Bridge(h) == GetValue(h, "global", "__mdeno__")

FileOps ==
    {"readFileSync", "readTextFileSync", "writeFileSync", "writeTextFileSync",
     "statSync", "lstatSync", "mkdirSync", "removeSync", "copyFileSync",
     "readDirSync", "renameSync", "realPathSync", "truncateSync",
     "makeTempDirSync", "makeTempFileSync"}

\* The object literal handed to Object.assign(globalThis.__mdeno__.fs, ...).
FsLiteral == [k \in FileOps \cup {"cwd"} |-> "fs:" \o k]

\* const noColorValue = __internal.noColor ?? false
NoColorValue(n) == IF n.noColor \in {"null", "undefined"} THEN "false" ELSE n.noColor

\* The object literal handed to Object.assign(globalThis.__mdeno__.os, ...);
\* Object.assign reads the two getters once and stores what they return.
OsLiteral(n) ==
    [args |-> n.args, exit |-> "os:exit", env |-> "envNs",
     noColor |-> NoColorValue(n), build |-> n.build,
     PermissionStatus |-> "class:PermissionStatus"]

EnvLiteral ==
    [k \in {"get", "set", "delete", "has", "toObject"} |-> "env:" \o k]

ErrorKinds ==
    {"NotFound", "PermissionDenied", "ConnectionRefused", "ConnectionReset",
     "ConnectionAborted", "NotConnected", "AddrInUse", "AddrNotAvailable",
     "BrokenPipe", "AlreadyExists", "InvalidData", "TimedOut", "Interrupted",
     "WouldBlock", "WriteZero", "UnexpectedEof", "BadResource", "Http", "Busy",
     "NotSupported", "FilesystemLoop", "IsADirectory", "NetworkUnreachable",
     "NotADirectory"}

\* globalThis.__mdeno__.errors = { NotFound, PermissionDenied, ... }
ErrorsLiteral == [k \in ErrorKinds |-> "class:" \o k]

PermissionsLiteral ==
    [k \in {"query", "querySync", "revoke", "revokeSync", "request", "requestSync"}
        |-> "permissions:" \o k]

\* const denoNs = { ... }: the properties the object literal copies by reference.
DenoLiteral(h, p) ==
    LET fs == GetValue(h, Bridge(h), "fs")
        os == GetValue(h, Bridge(h), "os")
        common == [k \in FileOps \cup {"exit", "env"} |->
                      IF k \in FileOps THEN GetValue(h, fs, k) ELSE GetValue(h, os, k)]
    IN  IF p = "full"
        THEN [k \in DOMAIN common \cup {"args", "cwd", "permissions"} |->
                 IF k = "args" THEN GetValue(h, os, "args")
                 ELSE IF k = "cwd" THEN GetValue(h, fs, "cwd")
                 ELSE IF k = "permissions" THEN "permissionsNs"
                 ELSE common[k]]
        ELSE common

\* A descriptor that would also install a setter.
GetterSetterDescriptor(name) ==
    Desc({"get", "set"}, Absent, "get:" \o name, "set:" \o name, FALSE, FALSE, FALSE)

\* Object.defineProperty(denoNs, "noColor" / "build", { get() {...} })
GetterDescriptor(name) ==
    Desc({"get"}, Absent, "get:" \o name, Absent, FALSE, FALSE, FALSE)

\* Object.defineProperty(denoNs, "errors", { value, enumerable, writable, configurable })
ErrorsDescriptor(h) ==
    Desc({"value", "enumerable", "writable", "configurable"},
         GetValue(h, Bridge(h), "errors"), Absent, Absent, FALSE, TRUE, FALSE)

\* The global property left writable.
GlobalDenoDescriptorWritable ==
    Desc({"value", "enumerable", "writable", "configurable"},
         "denoNs", Absent, Absent, TRUE, FALSE, FALSE)

\* Object.defineProperty(globalThis, "Deno", { value: denoNs, ... })
GlobalDenoDescriptor ==
    Desc({"value", "enumerable", "writable", "configurable"},
         "denoNs", Absent, Absent, FALSE, FALSE, FALSE)

\* The whole assembler module, run on heap h for profile p.
Assembled(h, p) ==
    LET h1 == IF p = "full"
              THEN h @@ ("denoNs" :> Literal(DenoLiteral(h, p)))
                     @@ ("permissionsNs" :> Literal(PermissionsLiteral))
              ELSE h @@ ("denoNs" :> Literal(DenoLiteral(h, p)))
        h2 == DefineProp(h1, "denoNs", "noColor", GetterDescriptor("noColor"))
        h3 == DefineProp(h2, "denoNs", "build", GetterDescriptor("build"))
        h4 == IF p = "full"
              THEN DefineProp(h3, "denoNs", "errors", ErrorsDescriptor(h3))
              ELSE h3
    IN  DefineProp(h4, "global", "Deno", GlobalDenoDescriptor)

Booted == "assemble" \in booted

NoOp == [kind |-> "none", path |-> "none", key |-> "none", ok |-> TRUE]

NativeInit ==
    [noColor : {"true", "null"}, build : {"build0"}, args : {"argv0"}]

InitNs ==
    /\ heap = HostHeap
    /\ booted = {}
    /\ profile \in Profiles
    /\ installed = Literal(EmptyProps)
    /\ native \in NativeInit
    /\ nsOps = 0
    /\ lastOp = NoOp

RegisterFs ==
    /\ "fs" \notin booted
    /\ "assemble" \notin booted
    /\ heap' = AssignAll(heap, GetValue(heap, Bridge(heap), "fs"), FsLiteral)
    /\ booted' = booted \cup {"fs"}
    /\ UNCHANGED <<profile, installed, native, nsOps, lastOp, nsRest>>

RegisterOs ==
    /\ "os" \notin booted
    /\ "assemble" \notin booted
    /\ heap' = AssignAll(heap @@ ("envNs" :> Literal(EnvLiteral)),
                         GetValue(heap, Bridge(heap), "os"), OsLiteral(native))
    /\ booted' = booted \cup {"os"}
    /\ noColorValue' = NoColorValue(native)
    /\ argvStart' = argv
    /\ UNCHANGED <<profile, installed, native, nsOps, lastOp, nsOther,
                   argv, argvFrozen, osRead>>

RegisterErrors ==
    /\ "errors" \notin booted
    /\ "assemble" \notin booted
    /\ heap' = SetProp(heap @@ ("errorsNs" :> Literal(ErrorsLiteral)),
                       Bridge(heap), "errors", "errorsNs")
    /\ booted' = booted \cup {"errors"}
    /\ UNCHANGED <<profile, installed, native, nsOps, lastOp, nsRest>>

Assemble ==
    /\ "assemble" \notin booted
    /\ {"fs", "os"} \subseteq booted
    /\ profile = "full" => "errors" \in booted
    /\ heap' = Assembled(heap, profile)
    /\ installed' = heap'["denoNs"]
    /\ booted' = booted \cup {"assemble"}
    /\ UNCHANGED <<profile, native, nsOps, lastOp, nsRest>>

(***************************************************************************)
(* Script code acting on the object graph after start-up.                  *)
(***************************************************************************)
ScriptPaths == {"globalThis", "Deno", "Deno.errors"}

Resolve(h, path) ==
    IF path = "globalThis" THEN "global"
    ELSE IF path = "Deno" THEN GetValue(h, "global", "Deno")
    ELSE GetValue(h, GetValue(h, "global", "Deno"), "errors")

ScriptKeys(path) ==
    IF path = "globalThis" THEN {"Deno"}
    ELSE IF path = "Deno"
    THEN {"readFileSync", "env", "exit", "permissions", "errors", "noColor", "added"}
    ELSE {"NotFound", "added"}

ScriptValues == {"X"}

ScriptDescs ==
    {Desc({"value", "writable", "enumerable", "configurable"},
          "X", Absent, Absent, TRUE, TRUE, TRUE),
     Desc({"value"}, "X", Absent, Absent, FALSE, FALSE, FALSE),
     Desc({"value"}, "denoNs", Absent, Absent, FALSE, FALSE, FALSE),
     Desc({"get"}, Absent, "get:script", Absent, FALSE, FALSE, FALSE),
     Desc({"enumerable"}, Absent, Absent, Absent, FALSE, TRUE, FALSE),
     Desc({"writable"}, Absent, Absent, Absent, TRUE, FALSE, FALSE),
     Desc({"configurable"}, Absent, Absent, Absent, FALSE, FALSE, TRUE)}

ScriptReady(path) ==
    /\ "assemble" \in booted
    /\ nsOps < MaxScriptOps
    /\ Resolve(heap, path) \in DOMAIN heap

\* path[key] = v
ScriptAssign(path, key, v) ==
    /\ ScriptReady(path)
    /\ heap' = SetProp(heap, Resolve(heap, path), key, v)
    /\ lastOp' = [kind |-> "assign", path |-> path, key |-> key,
                  ok |-> CanSet(heap, Resolve(heap, path), key)]
    /\ nsOps' = nsOps + 1
    /\ UNCHANGED <<booted, profile, installed, native, nsRest>>

\* delete path[key]
ScriptDelete(path, key) ==
    /\ ScriptReady(path)
    /\ heap' = DeleteProp(heap, Resolve(heap, path), key)
    /\ lastOp' = [kind |-> "delete", path |-> path, key |-> key,
                  ok |-> CanDelete(heap, Resolve(heap, path), key)]
    /\ nsOps' = nsOps + 1
    /\ UNCHANGED <<booted, profile, installed, native, nsRest>>

\* Object.defineProperty(path, key, d)
ScriptDefine(path, key, d) ==
    /\ ScriptReady(path)
    /\ heap' = DefineProp(heap, Resolve(heap, path), key, d)
    /\ lastOp' = [kind |-> "define", path |-> path, key |-> key,
                  ok |-> CanDefine(heap, Resolve(heap, path), key, d)]
    /\ nsOps' = nsOps + 1
    /\ UNCHANGED <<booted, profile, installed, native, nsRest>>

NextNs ==
    \/ RegisterFs
    \/ RegisterOs
    \/ RegisterErrors
    \/ Assemble
    \/ \E path \in ScriptPaths : \E key \in ScriptKeys(path) :
          \E v \in ScriptValues : ScriptAssign(path, key, v)
    \/ \E path \in ScriptPaths : \E key \in ScriptKeys(path) : ScriptDelete(path, key)
    \/ \E path \in ScriptPaths : \E key \in ScriptKeys(path) :
          \E d \in ScriptDescs : ScriptDefine(path, key, d)

(***************************************************************************)
(* Path-or-URL resolution (the filesystem registrar).                      *)
(***************************************************************************)
SLASH == 47
BACKSLASH == 92
PERCENT == 37
COLON == 58
DIGIT2 == 50
DIGIT5 == 53

IsHex(c) == c \in (48..57) \cup (65..70) \cup (97..102)

HexVal(c) == IF c \in 48..57 THEN c - 48 ELSE IF c \in 65..70 THEN c - 55 ELSE c - 87

IsAlpha(c) == c \in (65..90) \cup (97..122)

\* The number of '/' at the start of s.
RECURSIVE LeadingSlashes(_)
LeadingSlashes(s) ==
    IF s # <<>> /\ Head(s) = SLASH THEN 1 + LeadingSlashes(Tail(s)) ELSE 0

\* s.replace(PATHNAME_WIN_RE, "$1/"), PATHNAME_WIN_RE = /^\/*([A-Za-z]:)(\/|$)/
ReplacePathnameWin(s) ==
    LET n == LeadingSlashes(s) IN
    IF /\ Len(s) >= n + 2
       /\ IsAlpha(s[n + 1])
       /\ s[n + 2] = COLON
       /\ (Len(s) = n + 2 \/ s[n + 3] = SLASH)
    THEN <<s[n + 1], COLON, SLASH>> \o SubSeq(s, n + 4, Len(s))
    ELSE s

\* The replacement without the g flag: only the first '/' is rewritten.
ReplaceSlashWinFirstOnly(s) ==
    [i \in 1..Len(s) |->
        IF s[i] = SLASH /\ (\A j \in 1..(i - 1) : s[j] # SLASH) THEN BACKSLASH ELSE s[i]]

\* s.replace(SLASH_WIN_RE, "\\"), SLASH_WIN_RE = /\//g
ReplaceSlashWin(s) == [i \in 1..Len(s) |-> IF s[i] = SLASH THEN BACKSLASH ELSE s[i]]

\* s.replace(PERCENT_RE, "%25"), PERCENT_RE = /%(?![0-9A-Fa-f]{2})/g
RECURSIVE ReplacePercentFrom(_, _)
ReplacePercentFrom(s, i) ==
    IF i > Len(s) THEN <<>>
    ELSE IF /\ s[i] = PERCENT
            /\ ~(i + 2 <= Len(s) /\ IsHex(s[i + 1]) /\ IsHex(s[i + 2]))
         THEN <<PERCENT, DIGIT2, DIGIT5>> \o ReplacePercentFrom(s, i + 1)
         ELSE <<s[i]>> \o ReplacePercentFrom(s, i + 1)

\* A resolution that leaves every '%' of the pathname as it is.
ReplacePercentNone(s) == s

ReplacePercent(s) == ReplacePercentFrom(s, 1)

\* The byte written %XY at position k of s, or -1 when there is no escape there.
EscapedByte(s, k) ==
    IF k + 2 <= Len(s) /\ s[k] = PERCENT /\ IsHex(s[k + 1]) /\ IsHex(s[k + 2])
    THEN 16 * HexVal(s[k + 1]) + HexVal(s[k + 2])
    ELSE -1

\* The length of the UTF-8 sequence a lead byte announces (0: not a lead byte).
Utf8Length(b) ==
    IF b \in 192..223 THEN 2
    ELSE IF b \in 224..239 THEN 3
    ELSE IF b \in 240..247 THEN 4
    ELSE 0

IsContinuation(b) == b \in 128..191

\* The code point of the n-byte sequence escaped at position k, or -1 when the
\* bytes are missing or are not well-formed UTF-8.
Utf8CodePoint(s, k, n) ==
    LET b0 == EscapedByte(s, k)
        b(j) == EscapedByte(s, k + 3 * j)
        lowBits(j) == b(j) - 128
        v == IF n = 2 THEN (b0 - 192) * 64 + lowBits(1)
             ELSE IF n = 3 THEN (b0 - 224) * 4096 + lowBits(1) * 64 + lowBits(2)
             ELSE (b0 - 240) * 262144 + lowBits(1) * 4096 + lowBits(2) * 64 + lowBits(3)
        least == IF n = 2 THEN 128 ELSE IF n = 3 THEN 2048 ELSE 65536
    IN  IF /\ \A j \in 1..(n - 1) : IsContinuation(b(j))
           /\ v >= least
           /\ v <= 1114111
           /\ v \notin 55296..57343
        THEN v ELSE -1

\* decodeURIComponent(s): the decoded code points, or a URIError.
RECURSIVE DecodeFrom(_, _)
DecodeFrom(s, k) ==
    LET push(c, rest) == IF rest.ok THEN [ok |-> TRUE, str |-> <<c>> \o rest.str] ELSE rest
        failed == [ok |-> FALSE, str |-> <<>>]
    IN  IF k > Len(s) THEN [ok |-> TRUE, str |-> <<>>]
        ELSE IF s[k] # PERCENT THEN push(s[k], DecodeFrom(s, k + 1))
        ELSE LET b == EscapedByte(s, k) IN
             IF b < 0 THEN failed
             ELSE IF b < 128 THEN push(b, DecodeFrom(s, k + 3))
             ELSE LET n == Utf8Length(b) IN
                  IF n = 0 THEN failed
                  ELSE LET v == Utf8CodePoint(s, k, n) IN
                       IF v < 0 THEN failed
                       ELSE push(v, DecodeFrom(s, k + 3 * n))

DecodeURIComponent(s) == DecodeFrom(s, 1)

Thrown(kind) == [status |-> kind, path |-> <<>>]
Returned(p) == [status |-> "ok", path |-> p]

\* pathFromURLWin32(url)
PathFromURLWin32(url) ==
    LET p == ReplacePercent(ReplaceSlashWin(ReplacePathnameWin(url.pathname)))
        d == DecodeURIComponent(p)
    IN  IF ~d.ok THEN Thrown("URIError")
        ELSE IF url.hostname # <<>>
        THEN Returned(<<BACKSLASH, BACKSLASH>> \o url.hostname \o d.str)
        ELSE Returned(d.str)

\* The POSIX conversion without its host check.
PathFromURLPosixAnyHost(url) ==
    LET d == DecodeURIComponent(ReplacePercent(url.pathname)) IN
    IF d.ok THEN Returned(d.str) ELSE Thrown("URIError")

\* pathFromURLPosix(url)
PathFromURLPosix(url) ==
    IF url.hostname # <<>> THEN Thrown("TypeError")
    ELSE LET d == DecodeURIComponent(ReplacePercent(url.pathname)) IN
         IF d.ok THEN Returned(d.str) ELSE Thrown("URIError")

\* The conversion without its protocol check.
PathFromURLAnyScheme(plat, x) ==
    IF x.kind = "url"
    THEN IF plat = "Win32" THEN PathFromURLWin32(x) ELSE PathFromURLPosix(x)
    ELSE Returned(x.pathname)

\* pathFromURL(pathOrUrl) on a host whose navigator.platform is plat
PathFromURL(plat, x) ==
    IF x.kind = "url"
    THEN IF x.protocol # "file:" THEN Thrown("TypeError")
         ELSE IF plat = "Win32" THEN PathFromURLWin32(x) ELSE PathFromURLPosix(x)
    ELSE Returned(x.pathname)

(***************************************************************************)
(* The file operations of the filesystem registrar.                        *)
(***************************************************************************)
\* Printable ASCII, code points 32..126, for writing strings down.
AsciiChars ==
    <<" ", "!", "quote", "#", "$", "%", "&", "'", "(", ")", "*", "+", ",", "-", ".", "/",
      "0", "1", "2", "3", "4", "5", "6", "7", "8", "9", ":", ";", "<", "=", ">", "?",
      "@", "A", "B", "C", "D", "E", "F", "G", "H", "I", "J", "K", "L", "M", "N", "O",
      "P", "Q", "R", "S", "T", "U", "V", "W", "X", "Y", "Z", "[", "backslash", "]", "^", "_",
      "grave", "a", "b", "c", "d", "e", "f", "g", "h", "i", "j", "k", "l", "m", "n", "o",
      "p", "q", "r", "s", "t", "u", "v", "w", "x", "y", "z", "{", "|", "}", "~">>

Ord(c) == 31 + CHOOSE i \in 1..Len(AsciiChars) : AsciiChars[i] = c

\* The code points of a string written as a tuple of characters.
Str(chars) == [i \in 1..Len(chars) |-> Ord(chars[i])]

Platforms == {"Win32", "Linux"}

\* '/', 'g', ':', '%', '2', '5', 'F': enough for drive letters, raw percent
\* signs, ASCII escapes (%22 %25 %2F %52 %55 %5F) and bytes that are not UTF-8
\* (%F2 %F5 %FF).
PathChars == {SLASH, COLON, PERCENT, DIGIT2, DIGIT5, Ord("g"), Ord("F")}

ShortPathnames ==
    UNION {{<<SLASH>> \o t : t \in [1..n -> PathChars]} : n \in 0..MaxPathLen}

LongPathnames ==
    {Str(<<"/", "h", "o", "m", "e", "/", "u", "s", "e", "r", "/",
           "f", "i", "l", "e", ".", "t", "x", "t">>),
     Str(<<"/", "C", ":", "/", "p", "a", "t", "h">>),
     Str(<<"/", "s", "h", "a", "r", "e", "/", "f">>),
     Str(<<"/", "/", "C", ":", "/", "a", "%", "2", "F", "b", "%", "z">>),
     Str(<<"/", "%", "C", "3", "%", "A", "9">>),
     Str(<<"/", "%", "E", "2", "%", "8", "2", "%", "A", "C">>),
     Str(<<"/", "%", "F", "0", "%", "9", "F", "%", "9", "8", "%", "8", "0">>),
     Str(<<"/", "%", "C", "3", "%", "2", "8">>),
     Str(<<"/", "%", "C", "0", "%", "A", "F">>),
     Str(<<"/", "%", "E", "D", "%", "A", "0", "%", "8", "0">>)}

Pathnames == ShortPathnames \cup LongPathnames

Hostnames == {<<>>, Str(<<"h", "o", "s", "t">>)}

Protocols == {"file:", "https:"}

UrlValue(proto, host, path) ==
    [kind |-> "url", protocol |-> proto, hostname |-> host, pathname |-> path]

StringValue(str) ==
    [kind |-> "string", protocol |-> "", hostname |-> <<>>, pathname |-> str]

\* What a script may pass where a path is expected.
PathOrUrls ==
    {UrlValue("file:", h, p) : h \in Hostnames, p \in Pathnames}
        \cup {UrlValue(pr, h, p) : pr \in Protocols, h \in Hostnames, p \in LongPathnames}
        \cup {StringValue(p) : p \in LongPathnames}

\* The second path of a two-path call.
OtherPaths ==
    {StringValue(Str(<<"/", "t", "m", "p">>)),
     UrlValue("file:", <<>>, Str(<<"/", "t", "m", "p">>)),
     UrlValue("file:", Str(<<"h", "o", "s", "t">>), Str(<<"/", "t", "m", "p">>)),
     UrlValue("file:", <<>>, Str(<<"/", "%", "F", "F">>)),
     UrlValue("https:", <<>>, Str(<<"/", "t", "m", "p">>))}

OnePathOps ==
    {"readFileSync", "readTextFileSync", "writeFileSync", "writeTextFileSync",
     "statSync", "lstatSync", "mkdirSync", "removeSync", "readDirSync",
     "realPathSync", "truncateSync"}

TwoPathOps == {"copyFileSync", "renameSync"}

NoPathOps == {"cwd", "makeTempDirSync", "makeTempFileSync"}

\* What the native layer does with a call: return, or throw a structured error.
NativeOutcomes == {"ok", "NativeError"}

FsIdle == [op |-> "none", args |-> <<>>, status |-> "none"]

NativeCall(op, paths) == [fn |-> op, paths |-> paths]

\* A wrapper that would call the native operation again after it has thrown.
NativeInvokeRetrying(log, call, r) ==
    IF r = "NativeError" THEN Append(Append(log, call), call) ELSE Append(log, call)

\* return __internal.fs.op(...): the one native call of an operation; what it
\* returns or throws (r) goes to the caller as it is.
NativeInvoke(log, call, r) == Append(log, call)

InitFs ==
    /\ platform \in Platforms
    /\ fsArg \in PathOrUrls
    /\ fsCall = FsIdle
    /\ nativeLog = <<>>

\* op(path, ...): path = pathFromURL(path); return __internal.fs.op(path, ...)
CallOnePathOp(op, r) ==
    /\ fsCall = FsIdle
    /\ LET p == PathFromURL(platform, fsArg) IN
       IF p.status # "ok"
       THEN /\ fsCall' = [op |-> op, args |-> <<fsArg>>, status |-> p.status]
            /\ nativeLog' = nativeLog
       ELSE /\ fsCall' = [op |-> op, args |-> <<fsArg>>, status |-> r]
            /\ nativeLog' = NativeInvoke(nativeLog, NativeCall(op, <<p.path>>), r)
    /\ UNCHANGED <<platform, fsArg, fsRest>>

\* copyFileSync(fromPath, toPath) and renameSync(oldpath, newpath)
CallTwoPathOp(op, a, b, r) ==
    /\ fsCall = FsIdle
    /\ LET p == PathFromURL(platform, a)
           q == PathFromURL(platform, b)
       IN  IF p.status # "ok"
           THEN /\ fsCall' = [op |-> op, args |-> <<a, b>>, status |-> p.status]
                /\ nativeLog' = nativeLog
           ELSE IF q.status # "ok"
           THEN /\ fsCall' = [op |-> op, args |-> <<a, b>>, status |-> q.status]
                /\ nativeLog' = nativeLog
           ELSE /\ fsCall' = [op |-> op, args |-> <<a, b>>, status |-> r]
                /\ nativeLog' = NativeInvoke(nativeLog,
                                              NativeCall(op, <<p.path, q.path>>), r)
    /\ UNCHANGED <<platform, fsArg, fsRest>>

\* cwd(), makeTempDirSync(options), makeTempFileSync(options)
CallNoPathOp(op, r) ==
    /\ fsCall = FsIdle
    /\ fsCall' = [op |-> op, args |-> <<>>, status |-> r]
    /\ nativeLog' = NativeInvoke(nativeLog, NativeCall(op, <<>>), r)
    /\ UNCHANGED <<platform, fsArg, fsRest>>

NextFs ==
    \/ \E op \in OnePathOps : \E r \in NativeOutcomes : CallOnePathOp(op, r)
    \/ \E op \in TwoPathOps : \E other \in OtherPaths : \E r \in NativeOutcomes :
          CallTwoPathOp(op, fsArg, other, r)
    \/ \E op \in TwoPathOps : \E other \in OtherPaths : \E r \in NativeOutcomes :
          CallTwoPathOp(op, other, fsArg, r)
    \/ \E op \in NoPathOps : \E r \in NativeOutcomes : CallNoPathOp(op, r)

(***************************************************************************)
(* URL and URLSearchParams: one URL object u and the views of its query.   *)
(***************************************************************************)
QUESTION == Ord("?")
AMPERSAND == Ord("&")
EQUALS == Ord("=")
PLUS == Ord("+")
SPACE == Ord(" ")

\* What get() gives for a key that is not there (null).
Null == <<-1>>

\* The first index of c in s, 0 when it does not occur.
RECURSIVE IndexFrom(_, _, _)
IndexFrom(s, c, i) ==
    IF i > Len(s) THEN 0 ELSE IF s[i] = c THEN i ELSE IndexFrom(s, c, i + 1)

IndexOf(s, c) == IndexFrom(s, c, 1)

StartsWith(s, pre) == Len(s) >= Len(pre) /\ SubSeq(s, 1, Len(pre)) = pre

\* s.split(c)
RECURSIVE SplitOn(_, _)
SplitOn(s, c) ==
    LET i == IndexOf(s, c) IN
    IF i = 0 THEN <<s>>
    ELSE <<SubSeq(s, 1, i - 1)>> \o SplitOn(SubSeq(s, i + 1, Len(s)), c)

PlusToSpace(s) == [i \in 1..Len(s) |-> IF s[i] = PLUS THEN SPACE ELSE s[i]]
SpaceToPlus(s) == [i \in 1..Len(s) |-> IF s[i] = SPACE THEN PLUS ELSE s[i]]

\* One name=value segment of a query.
ParsePair(seg) ==
    LET i == IndexOf(seg, EQUALS) IN
    IF i = 0 THEN <<PlusToSpace(seg), <<>>>>
    ELSE <<PlusToSpace(SubSeq(seg, 1, i - 1)), PlusToSpace(SubSeq(seg, i + 1, Len(seg)))>>

RECURSIVE ParseSegments(_)
ParseSegments(segs) ==
    IF segs = <<>> THEN <<>>
    ELSE IF Head(segs) = <<>> THEN ParseSegments(Tail(segs))
    ELSE <<ParsePair(Head(segs))>> \o ParseSegments(Tail(segs))

\* The parameter list of a query string: segments between '&', empty ones
\* skipped, each split at its first '='.
ParseQuery(q) == ParseSegments(SplitOn(q, AMPERSAND))

\* The query string of a parameter list.
RECURSIVE SerializeParams(_)
SerializeParams(list) ==
    IF list = <<>> THEN <<>>
    ELSE LET one == SpaceToPlus(list[1][1]) \o <<EQUALS>> \o SpaceToPlus(list[1][2]) IN
         IF Len(list) = 1 THEN one
         ELSE one \o <<AMPERSAND>> \o SerializeParams(Tail(list))

\* URLSearchParams.get / has / append / delete / set
ParamsHas(list, k) == \E i \in 1..Len(list) : list[i][1] = k

ParamsGet(list, k) ==
    IF ParamsHas(list, k)
    THEN list[CHOOSE i \in 1..Len(list) :
                  list[i][1] = k /\ \A j \in 1..(i - 1) : list[j][1] # k][2]
    ELSE Null

ParamsAppend(list, k, v) == Append(list, <<k, v>>)

ParamsDelete(list, k) == SelectSeq(list, LAMBDA p : p[1] # k)

RECURSIVE SetFrom(_, _, _, _)
SetFrom(list, k, v, found) ==
    IF list = <<>> THEN <<>>
    ELSE IF Head(list)[1] # k THEN <<Head(list)>> \o SetFrom(Tail(list), k, v, found)
    ELSE IF found THEN SetFrom(Tail(list), k, v, TRUE)
    ELSE <<<<k, v>>>> \o SetFrom(Tail(list), k, v, TRUE)

ParamsSet(list, k, v) ==
    IF ParamsHas(list, k) THEN SetFrom(list, k, v, FALSE) ELSE Append(list, <<k, v>>)

\* u's origin and path: the model varies only the query.
UrlBase == Str(<<"h", "t", "t", "p", "s", ":", "/", "/", "e", "x", "a", "m", "p", "l", "e",
                 ".", "c", "o", "m">>)

\* u.search and u.href
SearchOf(q) == IF q = <<>> THEN <<>> ELSE <<QUESTION>> \o q
HrefOf(q) == UrlBase \o <<SLASH>> \o SearchOf(q)

\* The query an assignment to u.search sets: the value without its leading '?'.
QueryOfSearch(input) == IF StartsWith(input, <<QUESTION>>) THEN Tail(input) ELSE input

\* Parsing a whole serialization: [ok, query].
ParseHref(input) ==
    IF ~StartsWith(input, UrlBase) THEN [ok |-> FALSE, query |-> <<>>]
    ELSE LET rest == SubSeq(input, Len(UrlBase) + 1, Len(input))
             path == IF StartsWith(rest, <<SLASH>>) THEN Tail(rest) ELSE rest
         IN  IF path = <<>> THEN [ok |-> TRUE, query |-> <<>>]
             ELSE IF Head(path) = QUESTION THEN [ok |-> TRUE, query |-> Tail(path)]
             ELSE [ok |-> FALSE, query |-> <<>>]

\* A getter that makes a fresh view at every read and forgets the previous one.
SearchParamsViewFresh(vs, lv) == Len(vs) + 1

\* get searchParams: the view u hands out, made at the first read and kept.
SearchParamsView(vs, lv) == IF lv = 0 THEN Len(vs) + 1 ELSE lv

\* An assignment to the URL that leaves its view as it was.
RefreshedViewsStale(vs, lv, q) == vs

\* The views after u's query became q: the live view is re-read in place.
RefreshedViews(vs, lv, q) == IF lv = 0 THEN vs ELSE [vs EXCEPT ![lv] = ParseQuery(q)]

\* A view that does not write back to its URL.
OwnerQueryDetached(q, list) == q

\* The owner's query after one of its views changed to list.
OwnerQuery(q, list) == SerializeParams(list)

ParamKeys == {Str(<<"a">>), Str(<<"b">>)}
ParamValues == {Str(<<"1">>), Str(<<" ">>)}

SearchInputs ==
    {<<>>,
     Str(<<"?", "a", "=", "1">>),
     Str(<<"b", "=", "1">>),
     Str(<<"?", "b", "=", "1", "&", "a", "=", "1">>),
     Str(<<"?", "a">>),
     Str(<<"?", "b", "=", "+", "&", "&", "b", "=", "1">>)}

HrefInputs ==
    {UrlBase,
     UrlBase \o Str(<<"?", "a", "=", "1">>),
     UrlBase \o Str(<<"/", "?", "b", "=", "1", "&", "b", "=", "+">>),
     Str(<<"n", "o", "t", " ", "a", " ", "u", "r", "l">>)}

NoUrlOp ==
    [kind |-> "none", handle |-> 0, key |-> <<>>, value |-> <<>>, input |-> <<>>,
     before |-> <<>>, ok |-> TRUE]

UrlOp(kind, h, k, v, input, before, ok) ==
    [kind |-> kind, handle |-> h, key |-> k, value |-> v, input |-> input,
     before |-> before, ok |-> ok]

\* u = new URL(input)
InitUrl ==
    /\ \E input \in HrefInputs :
          /\ ParseHref(input).ok
          /\ urlQuery = ParseHref(input).query
    /\ views = <<>>
    /\ live = 0
    /\ handles = <<>>
    /\ urlOps = 0
    /\ lastUrlOp = NoUrlOp

\* p = u.searchParams
ReadSearchParams ==
    /\ urlOps < MaxUrlOps
    /\ Len(handles) < MaxHandles
    /\ LET v == SearchParamsView(views, live) IN
       /\ views' = IF v > Len(views) THEN Append(views, ParseQuery(urlQuery)) ELSE views
       /\ live' = v
       /\ handles' = Append(handles, v)
    /\ urlOps' = urlOps + 1
    /\ lastUrlOp' = UrlOp("read", Len(handles) + 1, <<>>, <<>>, <<>>, <<>>, TRUE)
    /\ UNCHANGED <<urlQuery, urlRest>>

\* u.search = input
SetSearch(input) ==
    /\ urlOps < MaxUrlOps
    /\ urlQuery' = QueryOfSearch(input)
    /\ views' = RefreshedViews(views, live, urlQuery')
    /\ urlOps' = urlOps + 1
    /\ lastUrlOp' = UrlOp("setSearch", 0, <<>>, <<>>, input, ParseQuery(urlQuery), TRUE)
    /\ UNCHANGED <<live, handles, urlRest>>

\* u.href = input
SetHref(input) ==
    /\ urlOps < MaxUrlOps
    /\ LET parsed == ParseHref(input) IN
       IF parsed.ok
       THEN /\ urlQuery' = parsed.query
            /\ views' = RefreshedViews(views, live, urlQuery')
            /\ lastUrlOp' =
                  UrlOp("setHref", 0, <<>>, <<>>, input, ParseQuery(urlQuery), TRUE)
       ELSE /\ UNCHANGED <<urlQuery, views>>
            /\ lastUrlOp' =
                  UrlOp("setHref", 0, <<>>, <<>>, input, ParseQuery(urlQuery), FALSE)
    /\ urlOps' = urlOps + 1
    /\ UNCHANGED <<live, handles, urlRest>>

\* A mutating call on the view behind handle h, leaving it with list.
ViewChanged(kind, h, k, v, list) ==
    /\ urlOps < MaxUrlOps
    /\ views' = [views EXCEPT ![handles[h]] = list]
    /\ urlQuery' = OwnerQuery(urlQuery, list)
    /\ urlOps' = urlOps + 1
    /\ lastUrlOp' = UrlOp(kind, h, k, v, <<>>, views[handles[h]], TRUE)
    /\ UNCHANGED <<live, handles, urlRest>>

\* p.append(k, v)
ViewAppend(h, k, v) ==
    ViewChanged("append", h, k, v, ParamsAppend(views[handles[h]], k, v))

\* p.set(k, v)
ViewSet(h, k, v) ==
    ViewChanged("set", h, k, v, ParamsSet(views[handles[h]], k, v))

\* p.delete(k)
ViewDelete(h, k) ==
    ViewChanged("delete", h, k, <<>>, ParamsDelete(views[handles[h]], k))

NextUrl ==
    \/ ReadSearchParams
    \/ \E input \in SearchInputs : SetSearch(input)
    \/ \E input \in HrefInputs : SetHref(input)
    \/ \E h \in DOMAIN handles : \E k \in ParamKeys : \E v \in ParamValues :
          ViewAppend(h, k, v)
    \/ \E h \in DOMAIN handles : \E k \in ParamKeys : \E v \in ParamValues :
          ViewSet(h, k, v)
    \/ \E h \in DOMAIN handles : \E k \in ParamKeys : ViewDelete(h, k)

(***************************************************************************)
(* Base64: the global btoa and atob over the native encoder and decoder.   *)
(***************************************************************************)
PAD == Ord("=")

\* The character of a 6-bit value in the base64 alphabet, and back.
B64Char(v) ==
    IF v < 26 THEN 65 + v
    ELSE IF v < 52 THEN 97 + (v - 26)
    ELSE IF v < 62 THEN 48 + (v - 52)
    ELSE IF v = 62 THEN Ord("+") ELSE Ord("/")

IsB64Char(c) ==
    c \in (65..90) \cup (97..122) \cup (48..57) \cup {Ord("+"), Ord("/")}

B64Value(c) ==
    IF c \in 65..90 THEN c - 65
    ELSE IF c \in 97..122 THEN c - 97 + 26
    ELSE IF c \in 48..57 THEN c - 48 + 52
    ELSE IF c = Ord("+") THEN 62 ELSE 63

RECURSIVE B64Encode(_)
B64Encode(b) ==
    IF b = <<>> THEN <<>>
    ELSE IF Len(b) = 1
    THEN <<B64Char(b[1] \div 4), B64Char((b[1] % 4) * 16), PAD, PAD>>
    ELSE IF Len(b) = 2
    THEN <<B64Char(b[1] \div 4), B64Char((b[1] % 4) * 16 + b[2] \div 16),
           B64Char((b[2] % 16) * 4), PAD>>
    ELSE <<B64Char(b[1] \div 4), B64Char((b[1] % 4) * 16 + b[2] \div 16),
           B64Char((b[2] % 16) * 4 + b[3] \div 64), B64Char(b[3] % 64)>>
            \o B64Encode(SubSeq(b, 4, Len(b)))

IsAsciiWhitespace(c) == c \in {9, 10, 12, 13, 32}

\* The text without one or two trailing '=' when its length is a multiple of 4.
WithoutPadding(t) ==
    IF Len(t) % 4 = 0 /\ Len(t) > 0 /\ t[Len(t)] = PAD
    THEN IF t[Len(t) - 1] = PAD THEN SubSeq(t, 1, Len(t) - 2)
         ELSE SubSeq(t, 1, Len(t) - 1)
    ELSE t

RECURSIVE B64DecodeGroups(_)
B64DecodeGroups(t) ==
    LET v(i) == B64Value(t[i]) IN
    IF Len(t) < 2 THEN <<>>
    ELSE IF Len(t) = 2 THEN <<v(1) * 4 + v(2) \div 16>>
    ELSE IF Len(t) = 3
    THEN <<v(1) * 4 + v(2) \div 16, (v(2) % 16) * 16 + v(3) \div 4>>
    ELSE <<v(1) * 4 + v(2) \div 16, (v(2) % 16) * 16 + v(3) \div 4,
           (v(3) % 4) * 64 + v(4)>> \o B64DecodeGroups(SubSeq(t, 5, Len(t)))

\* The bytes a base64 text stands for: [ok, bytes].
B64Decode(text) ==
    LET t == WithoutPadding(SelectSeq(text, LAMBDA c : ~IsAsciiWhitespace(c))) IN
    IF Len(t) % 4 = 1 \/ (\E i \in 1..Len(t) : ~IsB64Char(t[i]))
    THEN [ok |-> FALSE, bytes |-> <<>>]
    ELSE [ok |-> TRUE, bytes |-> B64DecodeGroups(t)]

IsLatin1(str) == \A i \in 1..Len(str) : str[i] \in 0..255

ERROR_PREFIX == Str(<<"E", "R", "R", "O", "R", ":", " ">>)

\* What the native decoder says about text that is not base64.
NativeDecodeMessage == Str(<<"b", "a", "d">>)

\* A call, how it ended, what it returned or the message it threw with, and
\* how many times it called the native layer.
EncResult(call, r) ==
    [call |-> call, status |-> r.status, value |-> r.value, native |-> r.native]

\* __internal.encoding.btoa(data): [status, value]
NativeBtoa(str) ==
    IF IsLatin1(str) THEN [status |-> "ok", value |-> B64Encode(str), native |-> 1]
    ELSE [status |-> "TypeError", value |-> <<>>, native |-> 1]

\* __internal.encoding.atob(data): the decoded string, or a string that starts
\* with "ERROR: " and carries the decoder's message.
NativeAtob(str) ==
    LET d == B64Decode(str) IN
    IF d.ok THEN d.bytes ELSE ERROR_PREFIX \o NativeDecodeMessage

\* btoa without its typeof test: whatever is passed goes to the native encoder.
BtoaUnchecked(data) == NativeBtoa(data.str)

\* globalThis.btoa(data)
Btoa(data) ==
    IF data.type # "string" THEN [status |-> "TypeError", value |-> <<>>, native |-> 0]
    ELSE NativeBtoa(data.str)

\* globalThis.atob(data)
Atob(data) ==
    IF data.type # "string" THEN [status |-> "TypeError", value |-> <<>>, native |-> 0]
    ELSE LET result == NativeAtob(data.str) IN
         IF StartsWith(result, ERROR_PREFIX)
         THEN [status |-> "InvalidCharacterError",
               value |-> SubSeq(result, Len(ERROR_PREFIX) + 1, Len(result)),
               native |-> 1]
         ELSE [status |-> "ok", value |-> result, native |-> 1]

StringArg(str) == [type |-> "string", str |-> str]

\* NUL, 'E', '=', 'A', e-acute and y-diaeresis (the last Latin1 character).
SampleChars == {0, 61, 65, 69, 233, 255}

ShortStrings == UNION {[1..n -> SampleChars] : n \in 0..MaxStrLen}

\* Strings that begin with the text of the native error convention, or nearly.
PrefixedStrings ==
    {ERROR_PREFIX \o t : t \in {<<>>, Str(<<"x">>), <<255>>, Str(<<"b", "a", "d">>)}}
        \cup {Str(<<"E", "R", "R", "O", "R", ":">>), Str(<<"E", "R", "R", "O", "R">>)}

\* A string with a character outside Latin1 (the euro sign).
WideStrings == {<<8364>>, <<65, 8364>>}

\* Base64 text of the prefixed strings.
EncodedStrings == {B64Encode(str) : str \in PrefixedStrings}

EncArgs ==
    {StringArg(str) :
        str \in ShortStrings \cup PrefixedStrings \cup WideStrings \cup EncodedStrings}
        \cup {[type |-> "number", str |-> <<>>], [type |-> "undefined", str |-> <<>>]}

EncIdle == EncResult("none", [status |-> "none", value |-> <<>>, native |-> 0])

InitEnc ==
    /\ encArg \in EncArgs
    /\ encRes = EncIdle

\* btoa(encArg)
CallBtoa ==
    /\ encRes = EncIdle
    /\ encRes' = EncResult("btoa", Btoa(encArg))
    /\ UNCHANGED <<encArg, encRest>>

\* atob(encArg)
CallAtob ==
    /\ encRes = EncIdle
    /\ encRes' = EncResult("atob", Atob(encArg))
    /\ UNCHANGED <<encArg, encRest>>

\* atob(e), e being what btoa(encArg) returned
CallAtobOfBtoa ==
    /\ encRes.call = "btoa"
    /\ encRes.status = "ok"
    /\ encRes' = EncResult("atob(btoa)", Atob(StringArg(encRes.value)))
    /\ UNCHANGED <<encArg, encRest>>

NextEnc ==
    \/ CallBtoa
    \/ CallAtob
    \/ CallAtobOfBtoa

(***************************************************************************)
(* The error classes and the errors a script constructs from them.         *)
(***************************************************************************)
\* class K extends P: the class each error class extends.
ErrorClassParent ==
    "class:NotFound" :> "class:Error" @@
    "class:PermissionDenied" :> "class:Error" @@
    "class:ConnectionRefused" :> "class:Error" @@
    "class:ConnectionReset" :> "class:Error" @@
    "class:ConnectionAborted" :> "class:Error" @@
    "class:NotConnected" :> "class:Error" @@
    "class:AddrInUse" :> "class:Error" @@
    "class:AddrNotAvailable" :> "class:Error" @@
    "class:BrokenPipe" :> "class:Error" @@
    "class:AlreadyExists" :> "class:Error" @@
    "class:InvalidData" :> "class:Error" @@
    "class:TimedOut" :> "class:Error" @@
    "class:Interrupted" :> "class:Error" @@
    "class:WouldBlock" :> "class:Error" @@
    "class:WriteZero" :> "class:Error" @@
    "class:UnexpectedEof" :> "class:Error" @@
    "class:BadResource" :> "class:Error" @@ "class:Http" :> "class:Error" @@
    "class:Busy" :> "class:Error" @@ "class:NotSupported" :> "class:Error" @@
    "class:FilesystemLoop" :> "class:Error" @@
    "class:IsADirectory" :> "class:Error" @@
    "class:NetworkUnreachable" :> "class:Error" @@
    "class:NotADirectory" :> "class:Error"

\* this.name = "...": the tag the constructor of each class puts on an instance.
ErrorClassName ==
    "class:NotFound" :> "NotFound" @@
    "class:PermissionDenied" :> "PermissionDenied" @@
    "class:ConnectionRefused" :> "ConnectionRefused" @@
    "class:ConnectionReset" :> "ConnectionReset" @@
    "class:ConnectionAborted" :> "ConnectionAborted" @@
    "class:NotConnected" :> "NotConnected" @@
    "class:AddrInUse" :> "AddrInUse" @@
    "class:AddrNotAvailable" :> "AddrNotAvailable" @@
    "class:BrokenPipe" :> "BrokenPipe" @@
    "class:AlreadyExists" :> "AlreadyExists" @@
    "class:InvalidData" :> "InvalidData" @@ "class:TimedOut" :> "TimedOut" @@
    "class:Interrupted" :> "Interrupted" @@
    "class:WouldBlock" :> "WouldBlock" @@ "class:WriteZero" :> "WriteZero" @@
    "class:UnexpectedEof" :> "UnexpectedEof" @@
    "class:BadResource" :> "BadResource" @@ "class:Http" :> "Http" @@
    "class:Busy" :> "Busy" @@ "class:NotSupported" :> "NotSupported" @@
    "class:FilesystemLoop" :> "FilesystemLoop" @@
    "class:IsADirectory" :> "IsADirectory" @@
    "class:NetworkUnreachable" :> "NetworkUnreachable" @@
    "class:NotADirectory" :> "NotADirectory"

\* The kinds the taxonomy lists, in order.
ListedKinds ==
    <<"NotFound", "PermissionDenied", "ConnectionRefused", "ConnectionReset",
      "ConnectionAborted", "NotConnected", "AddrInUse", "AddrNotAvailable",
      "BrokenPipe", "AlreadyExists", "InvalidData", "TimedOut",
      "Interrupted", "WouldBlock", "WriteZero", "UnexpectedEof",
      "BadResource", "Http", "Busy", "NotSupported",
      "FilesystemLoop", "IsADirectory", "NetworkUnreachable", "NotADirectory">>

ErrorMessages == {"", "gone"}

\* The classes an object of class cls is an instance of.
RECURSIVE Ancestors(_)
Ancestors(cls) ==
    IF cls \in DOMAIN ErrorClassParent
    THEN {cls} \cup Ancestors(ErrorClassParent[cls])
    ELSE {cls}

\* An instance that takes its tag from the built-in Error, not from its class.
NewErrorUntagged(cls, msg) == [class |-> cls, message |-> msg, name |-> "Error"]

\* new cls(msg): super(msg); this.name = ...
NewError(cls, msg) == [class |-> cls, message |-> msg, name |-> ErrorClassName[cls]]

\* e instanceof cls
InstanceOf(e, cls) == cls \in Ancestors(e.class)

InitErr == errs = <<>>

\* new errors[key](msg), errors being what the registrar put on the bridge
ConstructError(key, msg) ==
    /\ Len(errs) < MaxErrors
    /\ errs' = Append(errs, [key |-> key, msg |-> msg,
                             error |-> NewError(ErrorsLiteral[key], msg)])
    /\ UNCHANGED errRest

NextErr == \E key \in DOMAIN ErrorsLiteral, msg \in ErrorMessages : ConstructError(key, msg)

(***************************************************************************)
(* Deno.env: the environment functions of the OS registrar.                *)
(***************************************************************************)
EnvKeys == {"HOME", "NO_COLOR"}
EnvValues == {"a", "b"}
Undefined == "undefined"

\* Every environment over the keys: a key holds a value or is not set.
EnvStores == [EnvKeys -> EnvValues \cup {Undefined}]

\* __internal.env.*: the native store, read and written in place.
NativeEnvGet(store, key) == store[key]
NativeEnvHas(store, key) == store[key] # Undefined
NativeEnvSet(store, key, value) == [store EXCEPT ![key] = value]
NativeEnvDelete(store, key) == [store EXCEPT ![key] = Undefined]
NativeEnvToObject(store) ==
    [key \in {k \in EnvKeys : store[k] # Undefined} |-> store[key]]

\* A registrar that reads a copy of the environment taken when it ran.
EnvOfRegistrar(now, start) == start

\* The store a call on __internal.env reaches: the process's, as it is now.
EnvOfCall(now, start) == now

NoEnvCall == [op |-> "none", key |-> "", value |-> "", result |-> Undefined]

EnvCall(op, key, value, result) ==
    [op |-> op, key |-> key, value |-> value, result |-> result]

InitEnv ==
    /\ env \in EnvStores
    /\ envStart = env
    /\ envCall = NoEnvCall
    /\ envPrev = NoEnvCall

\* What every call records.
EnvCalled(call) ==
    /\ envCall' = call
    /\ envPrev' = envCall
    /\ UNCHANGED <<envStart, envRest>>

\* Deno.env.get(key)
EnvGet(key) ==
    /\ EnvCalled(EnvCall("get", key, "", NativeEnvGet(EnvOfCall(env, envStart), key)))
    /\ UNCHANGED env

\* Deno.env.has(key)
EnvHas(key) ==
    /\ EnvCalled(EnvCall("has", key, "", NativeEnvHas(EnvOfCall(env, envStart), key)))
    /\ UNCHANGED env

\* Deno.env.toObject()
EnvToObject ==
    /\ EnvCalled(EnvCall("toObject", "", "", NativeEnvToObject(EnvOfCall(env, envStart))))
    /\ UNCHANGED env

\* Deno.env.set(key, value)
EnvSet(key, value) ==
    /\ env' = NativeEnvSet(env, key, value)
    /\ EnvCalled(EnvCall("set", key, value, Undefined))

\* Deno.env.delete(key)
EnvDelete(key) ==
    /\ env' = NativeEnvDelete(env, key)
    /\ EnvCalled(EnvCall("delete", key, "", Undefined))

\* The environment changed by the process, not through Deno.env.
EnvChangedOutside(key, value) ==
    /\ env[key] # value
    /\ env' = [env EXCEPT ![key] = value]
    /\ EnvCalled(EnvCall("outside", key, value, Undefined))

NextEnv ==
    \/ \E key \in EnvKeys : EnvGet(key)
    \/ \E key \in EnvKeys : EnvHas(key)
    \/ EnvToObject
    \/ \E key \in EnvKeys, value \in EnvValues : EnvSet(key, value)
    \/ \E key \in EnvKeys : EnvDelete(key)
    \/ \E key \in EnvKeys, value \in EnvValues \cup {Undefined} :
            EnvChangedOutside(key, value)

(***************************************************************************)
(* Reads of Deno.noColor and Deno.args, and what can happen between them.  *)
(***************************************************************************)
NoColorNatives == {"true", "null", "undefined"}

\* get() { return os.noColor; } / get() { return os.build; }
CallGetter(h, g) ==
    IF g = "get:noColor" THEN GetValue(h, GetValue(h, Bridge(h), "os"), "noColor")
    ELSE GetValue(h, GetValue(h, Bridge(h), "os"), "build")

\* o[k], getters called
ReadProp(h, o, k) ==
    IF ~HasOwn(h, o, k) THEN Undefined
    ELSE IF h[o].props[k].kind = "data" THEN h[o].props[k].value
    ELSE CallGetter(h, h[o].props[k].get)

\* A noColor that asks the native layer every time it is read.
ReadNoColorLive(h, n, o) == NoColorValue(n)

\* o.noColor, o being Deno or the bridge's os
ReadNoColor(h, n, o) == ReadProp(h, o, "noColor")

\* What a script sees in Deno.args: the elements, when it is the native array.
ReadArgs(h, elems) ==
    IF ReadProp(h, "denoNs", "args") = "argv0" THEN elems
    ELSE <<ReadProp(h, "denoNs", "args")>>

\* A read, what it gave, and how many script operations came before it.
NoRead == [what |-> "none", value |-> Undefined, after |-> 0]

InitArgs == {<<"a">>, <<"a", "b">>}

InitOs ==
    /\ noColorValue = Absent
    /\ argv \in InitArgs
    /\ argvFrozen \in BOOLEAN
    /\ argvStart = <<>>
    /\ osRead = NoRead

\* The native noColor changes (NO_COLOR set or unset in the environment).
NativeNoColorChanges(v) ==
    /\ native.noColor # v
    /\ native' = [native EXCEPT !.noColor = v]
    /\ UNCHANGED <<heap, booted, profile, installed, nsOps, lastOp, nsOther, osVars>>

\* Deno.noColor
ReadDenoNoColor ==
    /\ Booted
    /\ osRead' = [what |-> "Deno.noColor", after |-> nsOps,
                  value |-> ReadNoColor(heap, native, "denoNs")]
    /\ UNCHANGED <<nsVars, nsOther, noColorValue, argv, argvFrozen, argvStart>>

\* globalThis.__mdeno__.os.noColor
ReadBridgeNoColor ==
    /\ "os" \in booted
    /\ osRead' = [what |-> "os.noColor", after |-> nsOps,
                  value |-> ReadNoColor(heap, native, GetValue(heap, Bridge(heap), "os"))]
    /\ UNCHANGED <<nsVars, nsOther, noColorValue, argv, argvFrozen, argvStart>>

\* Deno.args
ReadDenoArgs ==
    /\ Booted
    /\ osRead' = [what |-> "Deno.args", after |-> nsOps, value |-> ReadArgs(heap, argv)]
    /\ UNCHANGED <<nsVars, nsOther, noColorValue, argv, argvFrozen, argvStart>>

\* A script holding the native array in Deno.args.
HoldsArgs == Booted /\ ReadProp(heap, "denoNs", "args") = "argv0"

\* In-place change of the array: refused when it is frozen.
ArgsBecome(elems) ==
    /\ HoldsArgs
    /\ argv' = IF argvFrozen THEN argv ELSE elems
    /\ UNCHANGED <<nsVars, nsOther, noColorValue, argvFrozen, argvStart, osRead>>

\* Deno.args.push("x")
ArgsPush ==
    /\ Len(argv) < MaxArgs
    /\ ArgsBecome(Append(argv, "x"))

\* Deno.args.pop()
ArgsPop ==
    /\ Len(argv) > 0
    /\ ArgsBecome(SubSeq(argv, 1, Len(argv) - 1))

\* Deno.args[0] = "x"
ArgsIndexAssign ==
    /\ Len(argv) > 0
    /\ argv[1] # "x"
    /\ ArgsBecome([argv EXCEPT ![1] = "x"])

OsKeys == {"noColor", "args"}

NextOs ==
    \/ RegisterFs
    \/ RegisterOs
    \/ RegisterErrors
    \/ Assemble
    \/ \E v \in NoColorNatives : NativeNoColorChanges(v)
    \/ ReadDenoNoColor
    \/ ReadBridgeNoColor
    \/ ReadDenoArgs
    \/ \E key \in OsKeys : ScriptAssign("Deno", key, "X")
    \/ \E key \in OsKeys : ScriptDelete("Deno", key)
    \/ ArgsPush
    \/ ArgsPop
    \/ ArgsIndexAssign

(***************************************************************************)
(* Deno.permissions (full profile): six functions around one status.       *)
(***************************************************************************)
\* A constructor that ignores its arguments and starts at "prompt".
PermissionStatusPrompt(state, partial) == [state |-> "prompt", partial |-> partial]

\* new PermissionStatus(state, partial): the private fields #state, #partial
PermissionStatus(state, partial) == [state |-> state, partial |-> partial]

\* The getters of the class, and its setter.
GetState(st) == st.state
GetPartial(st) == st.partial
GetOnchange(st) == "null"
SetOnchange(st, handler) == st

\* Assignment to state or partial: they have a getter and no setter.
SetGetterOnly(st, v) == st

PermissionMethods ==
    {"query", "querySync", "revoke", "revokeSync", "request", "requestSync"}

\* The three that answer with Promise.resolve(permissionStatus).
PromiseMethods == {"query", "revoke", "request"}

PermissionDescs == {"read", "env", "undefined"}

\* What the caller of a method has in hand: how it got it, and what the
\* getters of the status say.
PermissionResult(method, desc, st) ==
    [op |-> method, desc |-> desc,
     how |-> IF method \in PromiseMethods THEN "fulfilled" ELSE "returned",
     state |-> GetState(st), partial |-> GetPartial(st), onchange |-> GetOnchange(st)]

\* const permissionStatus = new os.PermissionStatus("granted", false)
InitPerm ==
    /\ permStatus = PermissionStatus("granted", FALSE)
    /\ permLog = <<>>

\* Deno.permissions[method](desc)
CallPermission(method, desc) ==
    /\ Len(permLog) < MaxPermOps
    /\ permLog' = Append(permLog, PermissionResult(method, desc, permStatus))
    /\ UNCHANGED <<permStatus, permRest>>

\* status.onchange = handler
AssignOnchange(handler) ==
    /\ Len(permLog) < MaxPermOps
    /\ permStatus' = SetOnchange(permStatus, handler)
    /\ permLog' = Append(permLog, [op |-> "onchange=", desc |-> handler,
                                   how |-> "returned", state |-> GetState(permStatus'),
                                   partial |-> GetPartial(permStatus'),
                                   onchange |-> GetOnchange(permStatus')])
    /\ UNCHANGED permRest

\* status.state = v
AssignState(v) ==
    /\ Len(permLog) < MaxPermOps
    /\ permStatus' = SetGetterOnly(permStatus, v)
    /\ permLog' = Append(permLog, [op |-> "state=", desc |-> v,
                                   how |-> "returned", state |-> GetState(permStatus'),
                                   partial |-> GetPartial(permStatus'),
                                   onchange |-> GetOnchange(permStatus')])
    /\ UNCHANGED permRest

NextPerm ==
    \/ \E method \in PermissionMethods, desc \in PermissionDescs :
            CallPermission(method, desc)
    \/ \E handler \in {"handler", "null"} : AssignOnchange(handler)
    \/ \E v \in {"denied", "prompt"} : AssignState(v)

(***************************************************************************)
(* Deno.exit in a script of statements run in program order.               *)
(***************************************************************************)
\* console.log(...), Deno.exit(0), Deno.exit(1)
Statements == {"log", "exit0", "exit1"}

ExitCode(stmt) == IF stmt = "exit0" THEN 0 ELSE 1

Scripts == UNION {[1..n -> Statements] : n \in 1..MaxScriptLen}

\* A native exit that comes back to its caller.
NativeExitReturnsToCaller == TRUE

\* __internal.exit(code): whether control comes back to the caller.
NativeExitReturns == FALSE

InitExit ==
    /\ script \in Scripts
    /\ pc = 1
    /\ running = TRUE
    /\ ran = <<>>
    /\ exitLog = <<>>

AtStatement == running /\ pc <= Len(script)

\* console.log(...)
RunLog ==
    /\ AtStatement
    /\ script[pc] = "log"
    /\ ran' = Append(ran, pc)
    /\ pc' = pc + 1
    /\ UNCHANGED <<script, running, exitLog, exitRest>>

\* Deno.exit(code): function (code) { __internal.exit(code); }
RunExit ==
    /\ AtStatement
    /\ script[pc] # "log"
    /\ ran' = Append(ran, pc)
    /\ exitLog' = Append(exitLog, ExitCode(script[pc]))
    /\ running' = NativeExitReturns
    /\ pc' = IF NativeExitReturns THEN pc + 1 ELSE pc
    /\ UNCHANGED <<script, exitRest>>

NextExit ==
    \/ RunLog
    \/ RunExit

(***************************************************************************)
(* The URL constructor, URL.canParse and URL.parse.                        *)
(***************************************************************************)
Scheme == Str(<<"h", "t", "t", "p", "s", ":", "/", "/">>)

\* Where the first '/' of t is, or one past its end.
FirstSlash(t) ==
    IF \E i \in 1..Len(t) : t[i] = SLASH
    THEN CHOOSE i \in 1..Len(t) : t[i] = SLASH /\ \A j \in 1..(i - 1) : t[j] # SLASH
    ELSE Len(t) + 1

\* Where the last '/' of t is (t has one).
LastSlash(t) ==
    CHOOSE i \in 1..Len(t) : t[i] = SLASH /\ \A j \in (i + 1)..Len(t) : t[j] # SLASH

AfterScheme(t) == SubSeq(t, Len(Scheme) + 1, Len(t))
HostOf(t) == SubSeq(AfterScheme(t), 1, FirstSlash(AfterScheme(t)) - 1)
PathOf(t) == SubSeq(AfterScheme(t), FirstSlash(AfterScheme(t)), Len(AfterScheme(t)))

\* A path with each space written %20.
RECURSIVE EncodeSpaces(_)
EncodeSpaces(t) ==
    IF t = <<>> THEN <<>>
    ELSE IF Head(t) = SPACE
    THEN <<PERCENT, DIGIT2, Ord("0")>> \o EncodeSpaces(Tail(t))
    ELSE <<Head(t)>> \o EncodeSpaces(Tail(t))

ParseFailure == [ok |-> FALSE, href |-> <<>>]
Parsed(href) == [ok |-> TRUE, href |-> href]

\* A string that is a whole URL by itself.
AbsoluteParse(t) ==
    IF StartsWith(t, Scheme) /\ HostOf(t) # <<>>
          /\ \A i \in 1..Len(HostOf(t)) : HostOf(t)[i] # SPACE
    THEN Parsed(Scheme \o HostOf(t)
                    \o (IF PathOf(t) = <<>> THEN <<SLASH>> ELSE EncodeSpaces(PathOf(t))))
    ELSE ParseFailure

\* The one parser behind the three entry points; base is Null when not given.
UrlParser(input, base) ==
    IF base = Null THEN AbsoluteParse(input)
    ELSE IF ~AbsoluteParse(base).ok THEN ParseFailure
    ELSE IF StartsWith(input, Scheme) THEN AbsoluteParse(input)
    ELSE LET b == AbsoluteParse(base).href IN
         IF input = <<>> THEN Parsed(b)
         ELSE IF Head(input) = SLASH
         THEN Parsed(Scheme \o HostOf(b) \o EncodeSpaces(input))
         ELSE Parsed(SubSeq(b, 1, LastSlash(b)) \o EncodeSpaces(input))

\* A canParse that does not look at the base.
UrlCanParseWithoutBase(input, base) ==
    [called |-> TRUE, threw |-> FALSE, value |-> UrlParser(input, Null).ok]

\* new URL(input, base): the object (by its href), or a TypeError and no object
UrlConstructor(input, base) ==
    IF UrlParser(input, base).ok
    THEN [called |-> TRUE, threw |-> FALSE, value |-> UrlParser(input, base).href]
    ELSE [called |-> TRUE, threw |-> TRUE, value |-> Null]

\* URL.canParse(input, base)
UrlCanParse(input, base) ==
    [called |-> TRUE, threw |-> FALSE, value |-> UrlParser(input, base).ok]

\* URL.parse(input, base)
UrlParse(input, base) ==
    IF UrlParser(input, base).ok
    THEN [called |-> TRUE, threw |-> FALSE, value |-> UrlParser(input, base).href]
    ELSE [called |-> TRUE, threw |-> FALSE, value |-> Null]

NotAUrl == Str(<<"n", "o", "t", " ", "a", " ", "u", "r", "l">>)

ParseInputs ==
    {UrlBase, NotAUrl, <<>>, Scheme,
     UrlBase \o Str(<<"/", "a", " ", "b">>),
     Str(<<"/", "p", "a", "t", "h">>),
     Str(<<"p", "a", "g", "e", ".", "h", "t", "m", "l">>)}

ParseBases ==
    {Null, UrlBase, NotAUrl, UrlBase \o Str(<<"/", "d", "i", "r", "/", "x">>)}

NotCalled == [called |-> FALSE, threw |-> FALSE, value |-> Null]
CanNotCalled == [called |-> FALSE, threw |-> FALSE, value |-> FALSE]

InitParse ==
    /\ parseArgs \in [input : ParseInputs, base : ParseBases]
    /\ parseSeen = [ctor |-> NotCalled, can |-> CanNotCalled, parse |-> NotCalled]

\* new URL(input, base)
CallConstructor ==
    /\ ~parseSeen.ctor.called
    /\ parseSeen' =
          [parseSeen EXCEPT !.ctor = UrlConstructor(parseArgs.input, parseArgs.base)]
    /\ UNCHANGED <<parseArgs, parseRest>>

\* URL.canParse(input, base)
CallCanParse ==
    /\ ~parseSeen.can.called
    /\ parseSeen' =
          [parseSeen EXCEPT !.can = UrlCanParse(parseArgs.input, parseArgs.base)]
    /\ UNCHANGED <<parseArgs, parseRest>>

\* URL.parse(input, base)
CallParse ==
    /\ ~parseSeen.parse.called
    /\ parseSeen' =
          [parseSeen EXCEPT !.parse = UrlParse(parseArgs.input, parseArgs.base)]
    /\ UNCHANGED <<parseArgs, parseRest>>

NextParse ==
    \/ CallConstructor
    \/ CallCanParse
    \/ CallParse

(***************************************************************************)
(* Start-up order: each module's setup run against the roots that exist.   *)
(***************************************************************************)
\* The two global roots the modules reach for: the native record under
\* Symbol.for("mdeno.internal") and globalThis.__mdeno__ with its sub-trees.
Roots == {"internal", "mdeno"}

Modules == {"navigator", "fs", "os", "encoding", "errors", "assembler"}

\* The roots the code of a module refers to.
RootsUsed(mod) ==
    IF mod \in {"navigator", "encoding"} THEN {"internal"}
    ELSE IF mod \in {"fs", "os"} THEN {"internal", "mdeno"}
    ELSE {"mdeno"}

\* globalThis.navigator = new Navigator(): the constructor reads __internal.platform
SetupNavigator(roots) == IF "internal" \in roots THEN "done" ELSE "TypeError"

\* Object.assign(globalThis.__mdeno__.fs, {...}); __internal is only named
\* inside the functions of the literal.
SetupFs(roots) == IF "mdeno" \in roots THEN "done" ELSE "TypeError"

\* const noColorValue = __internal.noColor ?? false;
\* Object.assign(globalThis.__mdeno__.os, {...})
SetupOs(roots) ==
    IF "internal" \notin roots THEN "TypeError"
    ELSE IF "mdeno" \notin roots THEN "TypeError"
    ELSE "done"

\* globalThis.btoa = function ...; globalThis.atob = function ...: __internal
\* is only named inside the two functions.
SetupEncoding(roots) == "done"

\* globalThis.__mdeno__.errors = {...}
SetupErrors(roots) == IF "mdeno" \in roots THEN "done" ELSE "TypeError"

\* const fs = globalThis.__mdeno__.fs; ...; in the full profile
\* new os.PermissionStatus("granted", false) needs the OS registrar's class.
SetupAssembler(roots, p, osDone) ==
    IF "mdeno" \notin roots THEN "TypeError"
    ELSE IF p = "full" /\ ~osDone THEN "TypeError"
    ELSE "done"

\* The operations a script can call once the module's setup is done.
FirstCalls ==
    [navigator |-> {}, fs |-> {"readFileSync"}, os |-> {"exit"},
     encoding |-> {"btoa", "atob"}, errors |-> {}, assembler |-> {}]

\* __internal.<domain>.<op>(...) inside an operation: __internal is the value
\* the module read from the global when it was set up.
CallWithInternal(seen) == IF "internal" \in seen THEN "ok" ELSE "TypeError"

NoBootCall == [mod |-> "none", op |-> "none", status |-> "none"]

InitBoot ==
    /\ bootRoots \in SUBSET Roots
    /\ bootProfile \in Profiles
    /\ bootSetup = [mod \in Modules |-> "pending"]
    /\ bootSeen = [mod \in Modules |-> {}]
    /\ bootCall = NoBootCall

\* The host creates a root it had not created yet.
CreateRoot(r) ==
    /\ r \notin bootRoots
    /\ bootRoots' = bootRoots \cup {r}
    /\ UNCHANGED <<bootProfile, bootSetup, bootSeen, bootCall, bootRest>>

SetupOutcome(mod) ==
    IF mod = "navigator" THEN SetupNavigator(bootRoots)
    ELSE IF mod = "fs" THEN SetupFs(bootRoots)
    ELSE IF mod = "os" THEN SetupOs(bootRoots)
    ELSE IF mod = "encoding" THEN SetupEncoding(bootRoots)
    ELSE IF mod = "errors" THEN SetupErrors(bootRoots)
    ELSE SetupAssembler(bootRoots, bootProfile, bootSetup["os"] = "done")

\* The host evaluates a module; its const __internal is what the global held.
RunSetup(mod) ==
    /\ bootSetup[mod] = "pending"
    /\ bootCall = NoBootCall
    /\ bootSetup' = [bootSetup EXCEPT ![mod] = SetupOutcome(mod)]
    /\ bootSeen' = [bootSeen EXCEPT ![mod] = bootRoots]
    /\ UNCHANGED <<bootRoots, bootProfile, bootCall, bootRest>>

\* A script's first call of an operation of a module whose setup completed.
FirstCall(mod, op) ==
    /\ bootSetup[mod] = "done"
    /\ bootCall = NoBootCall
    /\ bootCall' = [mod |-> mod, op |-> op, status |-> CallWithInternal(bootSeen[mod])]
    /\ UNCHANGED <<bootRoots, bootProfile, bootSetup, bootSeen, bootRest>>

NextBoot ==
    \/ \E r \in Roots : CreateRoot(r)
    \/ \E mod \in Modules : RunSetup(mod)
    \/ \E mod \in Modules : \E op \in FirstCalls[mod] : FirstCall(mod, op)

(***************************************************************************)
(* URL components: one URL object held as its serialization, its           *)
(* components read by parsing it and written by serializing them again.    *)
(***************************************************************************)
HASH == Ord("#")
AT == Ord("@")

\* The first index of s that holds a character of stops, one past the end
\* when there is none.
RECURSIVE FirstOfFrom(_, _, _)
FirstOfFrom(s, stops, i) ==
    IF i > Len(s) \/ s[i] \in stops THEN i ELSE FirstOfFrom(s, stops, i + 1)

FirstOf(s, stops) == FirstOfFrom(s, stops, 1)

Before(s, c) == SubSeq(s, 1, FirstOf(s, {c}) - 1)
After(s, c) == SubSeq(s, FirstOf(s, {c}) + 1, Len(s))

\* The components of a serialization scheme://[user[:password]@]host[:port]
\* followed by path, query and fragment.
ParseComponents(href) ==
    LET rest == SubSeq(href, FirstOf(href, {COLON}) + 3, Len(href))
        authEnd == FirstOf(rest, {SLASH, QUESTION, HASH})
        authority == SubSeq(rest, 1, authEnd - 1)
        tail == SubSeq(rest, authEnd, Len(rest))
        hasUser == FirstOf(authority, {AT}) <= Len(authority)
        userinfo == IF hasUser THEN Before(authority, AT) ELSE <<>>
        hostport == IF hasUser THEN After(authority, AT) ELSE authority
        pathEnd == FirstOf(tail, {QUESTION, HASH})
        afterPath == SubSeq(tail, pathEnd, Len(tail))
        searchEnd == FirstOf(afterPath, {HASH})
    IN  [protocol |-> SubSeq(href, 1, FirstOf(href, {COLON})),
         username |-> Before(userinfo, COLON),
         password |-> After(userinfo, COLON),
         hostname |-> Before(hostport, COLON),
         port     |-> After(hostport, COLON),
         pathname |-> SubSeq(tail, 1, pathEnd - 1),
         search   |-> SubSeq(afterPath, 1, searchEnd - 1),
         hash     |-> SubSeq(afterPath, searchEnd, Len(afterPath))]

UserInfo(c) ==
    IF c.username = <<>> /\ c.password = <<>> THEN <<>>
    ELSE c.username
            \o (IF c.password = <<>> THEN <<>> ELSE <<COLON>> \o c.password)
            \o <<AT>>

\* u.host: the host name, with ':' and the port when there is one.
HostPort(c) == c.hostname \o (IF c.port = <<>> THEN <<>> ELSE <<COLON>> \o c.port)

\* A serialization that leaves the port out.
SerializeWithoutPort(c) ==
    c.protocol \o <<SLASH, SLASH>> \o UserInfo(c) \o c.hostname
        \o c.pathname \o c.search \o c.hash

\* u.href from the components.
Serialize(c) ==
    c.protocol \o <<SLASH, SLASH>> \o UserInfo(c) \o HostPort(c)
        \o c.pathname \o c.search \o c.hash

WithPrefix(c, v) == IF v = <<>> \/ Head(v) = c THEN v ELSE <<c>> \o v

\* The value a component holds after v was assigned to it.
Normalised(name, v) ==
    IF name = "protocol"
    THEN (IF v # <<>> /\ v[Len(v)] = COLON THEN v ELSE v \o <<COLON>>)
    ELSE IF name = "pathname" THEN (IF v = <<>> THEN <<SLASH>> ELSE WithPrefix(SLASH, v))
    ELSE IF name = "search" THEN WithPrefix(QUESTION, v)
    ELSE IF name = "hash" THEN WithPrefix(HASH, v)
    ELSE v

ComponentNames ==
    {"protocol", "host", "hostname", "port", "pathname", "search", "hash",
     "username", "password"}

\* u.<name>
GetComponent(href, name) ==
    IF name = "host" THEN HostPort(ParseComponents(href))
    ELSE ParseComponents(href)[name]

\* u.<name> = v: the components with the assigned one replaced, serialized.
\* host is the host name and the port together.
SetComponentValue(href, name, v) ==
    LET c == ParseComponents(href) IN
    IF name = "host"
    THEN Serialize([c EXCEPT !.hostname = Before(v, COLON), !.port = After(v, COLON)])
    ELSE Serialize([c EXCEPT ![name] = Normalised(name, v)])

ExamplePath == Str(<<"h", "t", "t", "p", "s", ":", "/", "/", "e", "x", "a", "m", "p",
                     "l", "e", ".", "c", "o", "m", "/", "p", "a", "t", "h">>)

ExampleUser == Str(<<"h", "t", "t", "p", "s", ":", "/", "/", "u", "s", "e", "r", "@",
                     "e", "x", "a", "m", "p", "l", "e", ".", "c", "o", "m", "/", "p",
                     "a", "t", "h">>)

ExampleFull == Str(<<"h", "t", "t", "p", "s", ":", "/", "/", "u", "s", "e", "r", ":",
                     "p", "a", "s", "s", "@", "e", "x", "a", "m", "p", "l", "e", ".",
                     "c", "o", "m", ":", "8", "0", "8", "0", "/", "p", "a", "t", "h",
                     "?", "q", "u", "e", "r", "y", "=", "v", "a", "l", "u", "e", "#",
                     "h", "a", "s", "h">>)

ExampleOld == Str(<<"h", "t", "t", "p", "s", ":", "/", "/", "e", "x", "a", "m", "p",
                    "l", "e", ".", "c", "o", "m", "/", "o", "l", "d">>)

ExampleHrefs == {ExamplePath, ExampleUser, ExampleFull, ExampleOld}

\* What a script assigns to each component.
ComponentInputs(name) ==
    IF name = "protocol" THEN {Str(<<"h", "t", "t", "p">>), Str(<<"h", "t", "t", "p", ":">>)}
    ELSE IF name = "host"
    THEN {Str(<<"t", "e", "s", "t", ".", "c", "o", "m", ":", "9", "0", "0", "0">>),
          Str(<<"t", "e", "s", "t", ".", "c", "o", "m">>)}
    ELSE IF name = "hostname"
    THEN {Str(<<"n", "e", "w", "h", "o", "s", "t", ".", "c", "o", "m">>)}
    ELSE IF name = "port" THEN {Str(<<"3", "0", "0", "0">>), <<>>}
    ELSE IF name = "pathname"
    THEN {Str(<<"/", "n", "e", "w", "/", "p", "a", "t", "h">>), Str(<<"n", "e", "w">>)}
    ELSE IF name = "search"
    THEN {Str(<<"?", "f", "o", "o", "=", "b", "a", "r">>), Str(<<"k", "=", "v">>), <<>>}
    ELSE IF name = "hash"
    THEN {Str(<<"#", "s", "e", "c", "t", "i", "o", "n">>), Str(<<"a">>), <<>>}
    ELSE IF name = "username" THEN {Str(<<"n", "e", "w", "u", "s", "e", "r">>), <<>>}
    ELSE {Str(<<"s", "e", "c", "r", "e", "t">>), <<>>}

NoComponentSet == [name |-> "none", value |-> <<>>, before |-> <<>>, once |-> <<>>,
                   times |-> 0]

InitComp ==
    /\ compHref \in ExampleHrefs
    /\ compSet = NoComponentSet

\* u.<name> = v on a URL no component of which was assigned yet
SetComponent(name, v) ==
    /\ compSet.times = 0
    /\ compHref' = SetComponentValue(compHref, name, v)
    /\ compSet' = [name |-> name, value |-> v, before |-> compHref,
                   once |-> compHref', times |-> 1]
    /\ UNCHANGED compRest

\* the same assignment a second time
SetComponentAgain ==
    /\ compSet.times = 1
    /\ compHref' = SetComponentValue(compHref, compSet.name, compSet.value)
    /\ compSet' = [compSet EXCEPT !.times = 2]
    /\ UNCHANGED compRest

NextComp ==
    \/ \E name \in ComponentNames : \E v \in ComponentInputs(name) : SetComponent(name, v)
    \/ SetComponentAgain

(***************************************************************************)
(* Specifications.                                                         *)
(***************************************************************************)
IdleNs ==
    /\ heap = HostHeap
    /\ booted = {}
    /\ profile = "full"
    /\ installed = Literal(EmptyProps)
    /\ native = [noColor |-> "null", build |-> "build0", args |-> "argv0"]
    /\ nsOps = 0
    /\ lastOp = NoOp

IdleFs ==
    /\ platform = "Linux"
    /\ fsArg = StringValue(<<>>)
    /\ fsCall = FsIdle
    /\ nativeLog = <<>>

IdleUrl ==
    /\ urlQuery = <<>>
    /\ views = <<>>
    /\ live = 0
    /\ handles = <<>>
    /\ urlOps = 0
    /\ lastUrlOp = NoUrlOp

IdleEnc ==
    /\ encArg = StringArg(<<>>)
    /\ encRes = EncIdle

IdleErr == errs = <<>>

IdleBoot ==
    /\ bootRoots = Roots
    /\ bootProfile = "full"
    /\ bootSetup = [mod \in Modules |-> "pending"]
    /\ bootSeen = [mod \in Modules |-> {}]
    /\ bootCall = NoBootCall

IdleComp ==
    /\ compHref = ExamplePath
    /\ compSet = NoComponentSet

IdleParse ==
    /\ parseArgs = [input |-> <<>>, base |-> Null]
    /\ parseSeen = [ctor |-> NotCalled, can |-> CanNotCalled, parse |-> NotCalled]

IdleExit ==
    /\ script = <<"log">>
    /\ pc = 1
    /\ running = TRUE
    /\ ran = <<>>
    /\ exitLog = <<>>

IdlePerm ==
    /\ permStatus = PermissionStatus("granted", FALSE)
    /\ permLog = <<>>

IdleOs ==
    /\ noColorValue = Absent
    /\ argv = <<"a">>
    /\ argvFrozen = FALSE
    /\ argvStart = <<>>
    /\ osRead = NoRead

IdleEnv ==
    /\ env = [key \in EnvKeys |-> Undefined]
    /\ envStart = env
    /\ envCall = NoEnvCall
    /\ envPrev = NoEnvCall

\* Start-up and script access to the namespace.
Init == InitNs /\ IdleFs /\ IdleUrl /\ IdleEnc /\ IdleErr /\ IdleEnv /\ IdleOs /\ IdlePerm
    /\ IdleExit /\ IdleParse /\ IdleBoot /\ IdleComp

Next == NextNs

Spec == Init /\ [][Next]_vars

\* One file operation applied to one path-or-URL argument.
FsInit == InitFs /\ IdleNs /\ IdleUrl /\ IdleEnc /\ IdleErr /\ IdleEnv /\ IdleOs /\ IdlePerm
    /\ IdleExit /\ IdleParse /\ IdleBoot /\ IdleComp

SpecFs == FsInit /\ [][NextFs]_vars

\* A script working on one URL and its search-parameter views.
UrlInit == InitUrl /\ IdleNs /\ IdleFs /\ IdleEnc /\ IdleErr /\ IdleEnv /\ IdleOs /\ IdlePerm
    /\ IdleExit /\ IdleParse /\ IdleBoot /\ IdleComp

SpecUrl == UrlInit /\ [][NextUrl]_vars

\* One string put through btoa, atob, or btoa and then atob.
EncInit == InitEnc /\ IdleNs /\ IdleFs /\ IdleUrl /\ IdleErr /\ IdleEnv /\ IdleOs /\ IdlePerm
    /\ IdleExit /\ IdleParse /\ IdleBoot /\ IdleComp

SpecEnc == EncInit /\ [][NextEnc]_vars

\* A script constructing errors of the registered kinds.
ErrInit == InitErr /\ IdleNs /\ IdleFs /\ IdleUrl /\ IdleEnc /\ IdleEnv /\ IdleOs /\ IdlePerm
    /\ IdleExit /\ IdleParse /\ IdleBoot /\ IdleComp

SpecErr == ErrInit /\ [][NextErr]_vars

\* A script calling Deno.env while the process changes its environment.
EnvInit == InitEnv /\ IdleNs /\ IdleFs /\ IdleUrl /\ IdleEnc /\ IdleErr /\ IdleOs /\ IdlePerm
    /\ IdleExit /\ IdleParse /\ IdleBoot /\ IdleComp

SpecEnv == EnvInit /\ [][NextEnv]_vars

\* Start-up, then a script reading Deno.noColor and Deno.args between changes
\* of the native noColor and its own attempts to change the two.
OsInit == InitNs /\ InitOs /\ IdleFs /\ IdleUrl /\ IdleEnc /\ IdleErr /\ IdleEnv /\ IdlePerm
    /\ IdleExit /\ IdleParse /\ IdleBoot /\ IdleComp

SpecOs == OsInit /\ [][NextOs]_vars

\* A script calling the permission functions and writing to the status.
PermInit ==
    InitPerm /\ IdleNs /\ IdleFs /\ IdleUrl /\ IdleEnc /\ IdleErr /\ IdleEnv /\ IdleOs
        /\ IdleExit /\ IdleParse /\ IdleBoot /\ IdleComp

SpecPerm == PermInit /\ [][NextPerm]_vars

\* A script running to its end or to its first Deno.exit.
ExitInit ==
    InitExit /\ IdleNs /\ IdleFs /\ IdleUrl /\ IdleEnc /\ IdleErr /\ IdleEnv /\ IdleOs
        /\ IdlePerm /\ IdleParse /\ IdleBoot /\ IdleComp

SpecExit == ExitInit /\ [][NextExit]_vars

\* One input and base given to the constructor, canParse and parse, in any order.
ParseInit ==
    InitParse /\ IdleNs /\ IdleFs /\ IdleUrl /\ IdleEnc /\ IdleErr /\ IdleEnv /\ IdleOs
        /\ IdlePerm /\ IdleExit /\ IdleBoot /\ IdleComp

SpecParse == ParseInit /\ [][NextParse]_vars

\* The modules set up in any order while the host creates the roots.
BootInit ==
    InitBoot /\ IdleNs /\ IdleFs /\ IdleUrl /\ IdleEnc /\ IdleErr /\ IdleEnv /\ IdleOs
        /\ IdlePerm /\ IdleExit /\ IdleParse /\ IdleComp

SpecBoot == BootInit /\ [][NextBoot]_vars

\* A script assigning to one component of a URL, twice.
CompInit ==
    InitComp /\ IdleNs /\ IdleFs /\ IdleUrl /\ IdleEnc /\ IdleErr /\ IdleEnv /\ IdleOs
        /\ IdlePerm /\ IdleExit /\ IdleParse /\ IdleBoot

SpecComp == CompInit /\ [][NextComp]_vars

(***************************************************************************)
(* Claims about the global Deno property and the namespace object.         *)
(***************************************************************************)
\* C1: once the assembler has run, globalThis.Deno is non-writable,
\* non-configurable and non-enumerable: whatever scripts assign, delete or
\* redefine, it is still the namespace object the assembler installed and
\* "Deno" is not among the global object's enumerable keys.
C1_GlobalDenoLocked ==
    Booted =>
        /\ HasOwn(heap, "global", "Deno")
        /\ heap["global"].props["Deno"] = DataProp("denoNs", FALSE, FALSE, FALSE)
        /\ "Deno" \notin EnumerableKeys(heap, "global")

\* A script has just tried to redefine globalThis.Deno and was refused.
C1_Witness ==
    /\ Booted
    /\ nsOps = MaxScriptOps
    /\ lastOp.kind = "define" /\ lastOp.path = "globalThis" /\ lastOp.key = "Deno"
    /\ ~lastOp.ok

\* C2: the namespace object is frozen: every property of Deno keeps the value
\* and attributes the assembler installed, and none is added or removed.
C2_NamespaceFrozen ==
    Booted => heap["denoNs"] = installed

\* C3: in the full profile Deno.errors is the same object and each of its
\* entries is still the error type the errors registrar registered.
C3_ErrorsFrozen ==
    (Booted /\ profile = "full") =>
        /\ GetValue(heap, "denoNs", "errors") = "errorsNs"
        /\ heap["errorsNs"] = Literal(ErrorsLiteral)

(***************************************************************************)
(* Claims about path-or-URL resolution.                                    *)
(***************************************************************************)
PathOps == OnePathOps \cup TwoPathOps

IsNonFileUrl(x) == x.kind = "url" /\ x.protocol # "file:"
IsFileUrl(x) == x.kind = "url" /\ x.protocol = "file:"

\* s holds an escape of a byte outside ASCII.
HasHighEscape(s) == \E k \in 1..Len(s) : EscapedByte(s, k) >= 128

\* s read once from the left: each %XY becomes the byte it names, every other
\* character (a '%' without two hex digits included) stands for itself.
RECURSIVE PlainDecode(_)
PlainDecode(s) ==
    IF s = <<>> THEN <<>>
    ELSE IF EscapedByte(s, 1) >= 0
         THEN <<EscapedByte(s, 1)>> \o PlainDecode(SubSeq(s, 4, Len(s)))
         ELSE <<Head(s)>> \o PlainDecode(Tail(s))

Resolved == fsCall.status \in NativeOutcomes

\* The path handed to the native call of the invocation.
NativePath == nativeLog[1].paths[1]

SomeArgNonFile == \E i \in DOMAIN fsCall.args : IsNonFileUrl(fsCall.args[i])

PosixFileCall ==
    platform # "Win32" /\ fsCall.op \in OnePathOps /\ IsFileUrl(fsCall.args[1])

HomeUserFile ==
    Str(<<"/", "h", "o", "m", "e", "/", "u", "s", "e", "r", "/",
          "f", "i", "l", "e", ".", "t", "x", "t">>)

\* C5 as stated: off Win32 a file URL with an empty host resolves to its
\* decoded pathname, and one with a host fails with a TypeError before any
\* native call.
C5_PosixAlwaysResolves ==
    PosixFileCall =>
        IF fsCall.args[1].hostname = <<>>
        THEN /\ Resolved
             /\ Len(nativeLog) = 1
             /\ ~HasHighEscape(fsCall.args[1].pathname) =>
                   NativePath = PlainDecode(fsCall.args[1].pathname)
        ELSE fsCall.status = "TypeError" /\ nativeLog = <<>>

\* C5 amended: off Win32 a file URL with a host fails with a TypeError before
\* any native call; with an empty host it resolves to its decoded pathname
\* when its escapes of bytes above 0x7F form well-formed UTF-8 (always, when
\* it has none), and otherwise fails with a URIError before any native call.
C5_PosixResolution ==
    PosixFileCall =>
        LET url == fsCall.args[1] IN
        IF url.hostname # <<>>
        THEN fsCall.status = "TypeError" /\ nativeLog = <<>>
        ELSE /\ fsCall.status # "TypeError"
             /\ Resolved <=> Len(nativeLog) = 1
             /\ ~Resolved => (fsCall.status = "URIError" /\ nativeLog = <<>>
                              /\ HasHighEscape(url.pathname))
             /\ ~HasHighEscape(url.pathname) =>
                   (Resolved /\ NativePath = PlainDecode(url.pathname))
             /\ url.pathname = HomeUserFile => (Resolved /\ NativePath = HomeUserFile)
             /\ url.pathname = Str(<<"/", "%", "C", "3", "%", "A", "9">>) =>
                   (Resolved /\ NativePath = <<SLASH, 233>>)
             /\ url.pathname = Str(<<"/", "%", "C", "3", "%", "2", "8">>) => ~Resolved
             /\ (HasHighEscape(url.pathname) /\ url.pathname \in ShortPathnames) =>
                   ~Resolved

\* A file URL with a host was refused off Win32.
C5_Witness ==
    /\ PosixFileCall
    /\ fsCall.args[1].hostname # <<>>
    /\ fsCall.args[1].pathname = HomeUserFile
    /\ fsCall.status = "TypeError"

Win32FileCall ==
    platform = "Win32" /\ fsCall.op \in OnePathOps /\ IsFileUrl(fsCall.args[1])

\* What remains of s after its leading slashes.
RECURSIVE AfterSlashes(_)
AfterSlashes(s) == IF s # <<>> /\ Head(s) = SLASH THEN AfterSlashes(Tail(s)) ELSE s

\* s is slashes, a drive letter and a colon, then a slash or nothing.
HasDrive(s) ==
    LET t == AfterSlashes(s) IN
    /\ Len(t) >= 2 /\ IsAlpha(t[1]) /\ t[2] = COLON
    /\ (Len(t) = 2 \/ t[3] = SLASH)

Backslashed(s) == [i \in 1..Len(s) |-> IF s[i] = SLASH THEN BACKSLASH ELSE s[i]]

\* The Windows spelling of a URL pathname: DRIVE:\rest, or the pathname itself,
\* with backslashes for slashes, then escapes decoded.
WindowsPath(s) ==
    LET t == AfterSlashes(s) IN
    IF HasDrive(s)
    THEN PlainDecode(<<t[1], COLON, BACKSLASH>> \o Backslashed(SubSeq(t, 4, Len(t))))
    ELSE PlainDecode(Backslashed(s))

UncPrefix(host) == IF host = <<>> THEN <<>> ELSE <<BACKSLASH, BACKSLASH>> \o host

\* C6 as stated: on Win32 a file URL resolves to DRIVE:\ form with backslashes,
\* prefixed by \\host when it has a host, and a file URL with a host is never
\* rejected.
C6_Win32AlwaysResolves ==
    Win32FileCall =>
        LET url == fsCall.args[1] IN
        /\ url.hostname # <<>> => Resolved
        /\ ~HasHighEscape(url.pathname) =>
              (Resolved /\ NativePath = UncPrefix(url.hostname) \o WindowsPath(url.pathname))

\* C6 amended: on Win32 a file URL whose escapes of bytes above 0x7F form
\* well-formed UTF-8 (always, when it has none) resolves to DRIVE:\ form with
\* backslashes, prefixed by \\host when it has a host; a host never causes a
\* rejection, the only failure being the URIError of a pathname that does not
\* decode, with or without a host.
C6_Win32Resolution ==
    Win32FileCall =>
        LET url == fsCall.args[1]
            bare == PathFromURLWin32([url EXCEPT !.hostname = <<>>])
        IN  /\ fsCall.status # "TypeError"
            /\ Resolved <=> bare.status = "ok"
            /\ Resolved => NativePath = UncPrefix(url.hostname) \o bare.path
            /\ ~Resolved => (fsCall.status = "URIError" /\ nativeLog = <<>>
                             /\ HasHighEscape(url.pathname))
            /\ ~HasHighEscape(url.pathname) =>
                  (Resolved /\ NativePath = UncPrefix(url.hostname) \o WindowsPath(url.pathname))
            /\ url.pathname = Str(<<"/", "C", ":", "/", "p", "a", "t", "h">>) =>
                  NativePath = UncPrefix(url.hostname)
                                  \o Str(<<"C", ":", "backslash", "p", "a", "t", "h">>)

\* file://host/share/f was resolved to \\host\share\f on Win32.
C6_Witness ==
    /\ Win32FileCall
    /\ fsCall.args[1].hostname = Str(<<"h", "o", "s", "t">>)
    /\ fsCall.args[1].pathname = Str(<<"/", "s", "h", "a", "r", "e", "/", "f">>)
    /\ Resolved
    /\ NativePath = Str(<<"backslash", "backslash", "h", "o", "s", "t",
                          "backslash", "s", "h", "a", "r", "e", "backslash", "f">>)

(***************************************************************************)
(* Claims about the URL and its search-parameter views.                    *)
(***************************************************************************)
UrlSearch == SearchOf(urlQuery)
UrlHref == HrefOf(urlQuery)

\* The parameter list the script sees through handle h.
Held(h) == views[handles[h]]

\* The name=value segments of the query part of a serialization.
SegmentsOf(href) ==
    LET i == IndexOf(href, QUESTION) IN
    IF i = 0 THEN <<>> ELSE SplitOn(SubSeq(href, i + 1, Len(href)), AMPERSAND)

PairText(k, v) == SpaceToPlus(k) \o <<EQUALS>> \o SpaceToPlus(v)

HasSegment(href, seg) == \E i \in DOMAIN SegmentsOf(href) : SegmentsOf(href)[i] = seg

SegmentsWithKey(href, k) ==
    {i \in DOMAIN SegmentsOf(href) : StartsWith(SegmentsOf(href)[i], k \o <<EQUALS>>)}

UrlAssigned == lastUrlOp.kind \in {"setSearch", "setHref"} /\ lastUrlOp.ok

\* The query the last assignment to u.search or u.href named.
AssignedQuery ==
    IF lastUrlOp.kind = "setSearch"
    THEN QueryOfSearch(lastUrlOp.input)
    ELSE ParseHref(lastUrlOp.input).query

\* C7: after an assignment to u.search or u.href every view obtained earlier
\* holds exactly the parameters of the new query: get returns the new query's
\* values, and null for keys that were only in the old query.
C7_UrlToView ==
    UrlAssigned =>
        /\ urlQuery = AssignedQuery
        /\ \A h \in DOMAIN handles :
              /\ Held(h) = ParseQuery(AssignedQuery)
              /\ \A k \in ParamKeys :
                    /\ HasSegment(UrlHref, PairText(k, Str(<<"1">>)))
                          /\ Cardinality(SegmentsWithKey(UrlHref, k)) = 1
                          => ParamsGet(Held(h), k) = Str(<<"1">>)
                    /\ ParamsHas(lastUrlOp.before, k)
                          /\ SegmentsWithKey(UrlHref, k) = {}
                          /\ ~HasSegment(UrlHref, k)
                          => ParamsGet(Held(h), k) = Null

\* u.search was assigned while the script held a view; a key of the old
\* query is gone from the view and a key of the new one is there.
C7_Witness ==
    /\ UrlAssigned
    /\ lastUrlOp.kind = "setSearch"
    /\ handles # <<>>
    /\ \E k \in ParamKeys : ParamsHas(lastUrlOp.before, k) /\ ParamsGet(Held(1), k) = Null
    /\ \E k \in ParamKeys : ~ParamsHas(lastUrlOp.before, k) /\ ParamsGet(Held(1), k) # Null

ViewMutated == lastUrlOp.kind \in {"append", "set", "delete"}

\* C8: after append, set or delete on a view, u.search and u.href are the
\* serialization of the view's list: an appended pair is in u.href, a deleted
\* key is not, a set key is there once with its new value, and the untouched
\* parameters are still there.
C8_ViewToUrl ==
    ViewMutated =>
        LET list == Held(lastUrlOp.handle)
            k == lastUrlOp.key
            v == lastUrlOp.value
        IN  /\ UrlSearch = SearchOf(SerializeParams(list))
            /\ UrlHref = UrlBase \o <<SLASH>> \o UrlSearch
            /\ lastUrlOp.kind = "append" => HasSegment(UrlHref, PairText(k, v))
            /\ lastUrlOp.kind = "delete" => SegmentsWithKey(UrlHref, k) = {}
            /\ lastUrlOp.kind = "set" =>
                  /\ Cardinality(SegmentsWithKey(UrlHref, k)) = 1
                  /\ HasSegment(UrlHref, PairText(k, v))
            /\ \A i \in DOMAIN lastUrlOp.before :
                  lastUrlOp.before[i][1] # k =>
                      HasSegment(UrlHref, PairText(lastUrlOp.before[i][1],
                                                   lastUrlOp.before[i][2]))

\* A key with two values was set through a view while another parameter was
\* present.
C8_Witness ==
    /\ lastUrlOp.kind = "set"
    /\ Len(SelectSeq(lastUrlOp.before, LAMBDA p : p[1] = lastUrlOp.key)) = 2
    /\ \E i \in DOMAIN lastUrlOp.before : lastUrlOp.before[i][1] # lastUrlOp.key

C10_Base64RoundTrip ==
    (encRes.call = "atob(btoa)" /\ encArg.type = "string" /\ IsLatin1(encArg.str)) =>
        (encRes.status = "ok" /\ encRes.value = encArg.str)

\* C11: atob has three outcomes and keeps them apart: a non-string argument
\* throws a TypeError and the native decoder is not called; a string the
\* native decoder finds malformed throws InvalidCharacterError with the
\* decoder's text, less the "ERROR: " prefix, as message; any other string
\* returns what it decodes to.  No returned string begins with "ERROR: "
\* because a decoding failed.
C11_AtobOutcomes ==
    encRes.call = "atob" =>
        IF encArg.type # "string"
        THEN encRes.status = "TypeError" /\ encRes.native = 0
        ELSE IF ~B64Decode(encArg.str).ok
        THEN encRes.status = "InvalidCharacterError"
                /\ encRes.value = NativeDecodeMessage
        ELSE encRes.status = "ok" /\ encRes.value = B64Decode(encArg.str).bytes

C13_KindsDistinct ==
    /\ DOMAIN ErrorsLiteral = {ListedKinds[i] : i \in 1..Len(ListedKinds)}
    /\ Cardinality(DOMAIN ErrorsLiteral) = 24
    /\ \A i \in 1..Len(errs) :
        /\ errs[i].error.message = errs[i].msg
        /\ errs[i].error.name = errs[i].key
        /\ InstanceOf(errs[i].error, ErrorsLiteral[errs[i].key])
    /\ \A i, j \in 1..Len(errs) :
        errs[i].key # errs[j].key =>
            /\ errs[i].error.name # errs[j].error.name
            /\ ~InstanceOf(errs[i].error, ErrorsLiteral[errs[j].key])

\* A NotFound and a PermissionDenied with the same message have been constructed.
C13_Witness ==
    /\ Len(errs) = 2
    /\ errs[1].key = "NotFound"
    /\ errs[2].key = "PermissionDenied"
    /\ errs[1].msg = "gone"
    /\ errs[2].msg = "gone"

(***************************************************************************)
(* Claims about the OS registrar.                                          *)
(***************************************************************************)
\* C14: Deno.env keeps no cache: get, has and toObject return what the native
\* environment holds when they are called, whatever set, delete and changes
\* from outside came before; get(k) right after set(k, v) returns v and has(k)
\* right after delete(k) is false.
C14_EnvNoCache ==
    /\ envCall.op = "get" => envCall.result = env[envCall.key]
    /\ envCall.op = "has" => envCall.result = (env[envCall.key] # Undefined)
    /\ envCall.op = "toObject" =>
        /\ DOMAIN envCall.result = {k \in EnvKeys : env[k] # Undefined}
        /\ \A k \in DOMAIN envCall.result : envCall.result[k] = env[k]
    /\ (envCall.op = "get" /\ envPrev.op = "set" /\ envPrev.key = envCall.key) =>
        envCall.result = envPrev.value
    /\ (envCall.op = "has" /\ envPrev.op = "delete" /\ envPrev.key = envCall.key) =>
        envCall.result = FALSE

\* get(k) has returned a value that was set after the registrar ran.
C14_Witness ==
    /\ envCall.op = "get"
    /\ envPrev.op \in {"set", "outside"}
    /\ envPrev.key = envCall.key
    /\ envCall.result # envStart[envCall.key]
    /\ envCall.result # Undefined

\* C15: noColor is resolved once, when the OS registrar runs: every read of
\* Deno.noColor and of os.noColor returns what the native noColor was then
\* (false for null and undefined), whatever the native value is now and
\* whatever a script assigned to Deno.noColor.
C15_NoColorResolvedOnce ==
    /\ "os" \in booted => noColorValue \in {"true", "false"}
    /\ osRead.what \in {"Deno.noColor", "os.noColor"} => osRead.value = noColorValue

\* Deno.noColor was read after the native value changed and after a script
\* assigned to it.
C15_Witness ==
    /\ osRead.what = "Deno.noColor"
    /\ osRead.after = nsOps
    /\ NoColorValue(native) # noColorValue
    /\ lastOp.kind = "assign" /\ lastOp.key = "noColor"

\* C16: Deno.args is immutable once captured: in the full profile, whatever a
\* script assigned to Deno.args or pushed, popped or stored in place, a read of
\* Deno.args gives the elements the array had when the OS registrar ran.
C16_ArgsImmutable ==
    (profile = "full" /\ osRead.what = "Deno.args") => osRead.value = argvStart

(***************************************************************************)
(* Claims about permissions.                                               *)
(***************************************************************************)
\* C17: permissions are always granted: whatever calls (revoke and revokeSync
\* among them) and assignments to onchange came before, each of the six
\* functions gives, directly or as the value of a fulfilled promise, a status
\* with state "granted", partial false and onchange null; none throws or
\* rejects.
C17_AlwaysGranted ==
    \A i \in 1..Len(permLog) :
        permLog[i].op \in PermissionMethods =>
            /\ permLog[i].state = "granted"
            /\ permLog[i].partial = FALSE
            /\ permLog[i].onchange = "null"
            /\ permLog[i].how =
                  (IF permLog[i].op \in PromiseMethods THEN "fulfilled" ELSE "returned")

\* A query made after a revoke.
C17_Witness ==
    /\ Len(permLog) = 2
    /\ permLog[1].op \in {"revoke", "revokeSync"}
    /\ permLog[2].op \in {"query", "querySync"}

(***************************************************************************)
(* Claims about the two profiles.                                          *)
(***************************************************************************)
\* The filesystem and OS primitives of the namespace.
Primitives == FileOps \cup {"args", "cwd", "exit", "env", "build", "noColor"}

\* The namespace the full-profile assembler builds from the bridge in h.
FullNamespace(h) ==
    Assembled([o \in DOMAIN h \ {"denoNs", "permissionsNs"} |-> h[o]], "full")["denoNs"]

\* C18: the minimal profile's Deno has neither permissions nor errors, and has
\* every filesystem and OS primitive of the full profile (args, cwd, the
\* fifteen file operations, exit, env, build, noColor), each bound to the same
\* bridge function or getter as in the full profile.
C18_ProfilesAgree ==
    (Booted /\ profile = "minimal") =>
        /\ "permissions" \notin DOMAIN installed.props
        /\ "errors" \notin DOMAIN installed.props
        /\ \A k \in Primitives :
            /\ k \in DOMAIN FullNamespace(heap).props
            /\ k \in DOMAIN installed.props
            /\ installed.props[k] = FullNamespace(heap).props[k]

FsCalled == fsCall.op \in PathOps \cup NoPathOps

\* C23: every filesystem operation makes at most one native call per
\* invocation and never retries: an invocation that fails while its paths are
\* resolved makes none, any other makes exactly one, the operation of its own
\* name, and the native outcome (a thrown error included) is the invocation's.
C23_OneNativeCall ==
    FsCalled =>
        /\ Len(nativeLog) <= 1
        /\ fsCall.status \notin NativeOutcomes => nativeLog = <<>>
        /\ fsCall.status \in NativeOutcomes =>
              /\ Len(nativeLog) = 1
              /\ nativeLog[1].fn = fsCall.op
              /\ Len(nativeLog[1].paths) = Len(fsCall.args)

C23_Witness ==
    /\ fsCall.op \in TwoPathOps
    /\ fsCall.status = "NativeError"
    /\ Len(nativeLog) = 1
    /\ Len(nativeLog[1].paths) = 2

\* A one-path operation given a file URL that no host check rejects.
FileUrlCall ==
    /\ fsCall.op \in OnePathOps
    /\ IsFileUrl(fsCall.args[1])
    /\ (platform = "Win32" \/ fsCall.args[1].hostname = <<>>)

\* The path a pathname stands for on the platform, escapes read one by one.
PlatformPath(url) ==
    IF platform = "Win32"
    THEN UncPrefix(url.hostname) \o WindowsPath(url.pathname)
    ELSE PlainDecode(url.pathname)

\* s has a '%' that is not followed by two hex digits.
HasRawPercent(s) == \E k \in 1..Len(s) : s[k] = PERCENT /\ EscapedByte(s, k) < 0

\* s with each '%' that is not followed by two hex digits written %25.
RECURSIVE EscapeRawPercents(_)
EscapeRawPercents(s) ==
    IF s = <<>> THEN <<>>
    ELSE IF EscapedByte(s, 1) >= 0
         THEN SubSeq(s, 1, 3) \o EscapeRawPercents(SubSeq(s, 4, Len(s)))
         ELSE IF Head(s) = PERCENT
              THEN <<PERCENT, DIGIT2, DIGIT5>> \o EscapeRawPercents(Tail(s))
              ELSE <<Head(s)>> \o EscapeRawPercents(Tail(s))

\* C26 as stated: for every file URL each two-hex-digit escape of the pathname
\* is decoded to its character and each other '%' comes out as a literal '%':
\* the resolution succeeds and gives the pathname with its escapes decoded.
C26_EveryEscapeDecodes ==
    FileUrlCall =>
        /\ Resolved
        /\ ~HasHighEscape(fsCall.args[1].pathname) =>
              NativePath = PlatformPath(fsCall.args[1])

\* C26 amended: on both platforms a '%' that is not followed by two hex digits
\* is read as the literal '%' (the resolution is that of the pathname with
\* %25 in its place), never makes the resolution fail and is never consumed as
\* part of an escape; each two-hex-digit escape of an ASCII byte is decoded to
\* its character; escapes of bytes above 0x7F are decoded together as UTF-8,
\* and the resolution fails with a URIError when they are not well formed.
C26_PercentHandling ==
    FileUrlCall =>
        LET url == fsCall.args[1]
            escaped == [url EXCEPT !.pathname = EscapeRawPercents(url.pathname)]
        IN  /\ PathFromURL(platform, url) = PathFromURL(platform, escaped)
            /\ ~Resolved => (fsCall.status = "URIError" /\ nativeLog = <<>>
                             /\ HasHighEscape(url.pathname))
            /\ ~HasHighEscape(url.pathname) =>
                  (Resolved /\ NativePath = PlatformPath(url))

C26_Witness ==
    /\ FileUrlCall
    /\ platform # "Win32"
    /\ fsCall.args[1].pathname =
          Str(<<"/", "/", "C", ":", "/", "a", "%", "2", "F", "b", "%", "z">>)
    /\ HasRawPercent(fsCall.args[1].pathname)
    /\ Resolved
    /\ NativePath = Str(<<"/", "/", "C", ":", "/", "a", "/", "b", "%", "z">>)


(***************************************************************************)
(* Claims about the registrars and the assembler.                          *)
(***************************************************************************)
SubTrees == {"fs", "os", "errors"}

\* The keys the registrar of sub-tree k registers.
RegisteredKeys(k) ==
    IF k = "fs" THEN DOMAIN FsLiteral
    ELSE IF k = "os" THEN DOMAIN OsLiteral(native)
    ELSE DOMAIN ErrorsLiteral

\* C24: registrars only add to what the host created: the bridge root and
\* each sub-tree object the host attached (fs, os, errors) keep their
\* identity across the registrars' setup, and a reference to a sub-tree taken
\* before its registrar ran sees the registered operations afterwards.
C24_SubTreesKeepIdentity ==
    /\ Bridge(heap) = Bridge(HostHeap)
    /\ \A k \in SubTrees :
          LET before == GetValue(HostHeap, Bridge(HostHeap), k) IN
          /\ GetValue(heap, Bridge(heap), k) = before
          /\ (k \in booted /\ ~Booted) =>
                RegisteredKeys(k) \subseteq DOMAIN heap[before].props

DirectOperations == FileOps \cup {"cwd", "exit", "env"}

\* The sub-tree of the bridge that holds direct operation k.
SubTreeOf(h, k) ==
    IF k \in FileOps \cup {"cwd"}
    THEN GetValue(h, Bridge(h), "fs") ELSE GetValue(h, Bridge(h), "os")

\* Property k of the namespace as installed is the bridge's own value.
CopiedByReference(k) ==
    /\ k \in DOMAIN installed.props
    /\ installed.props[k].kind = "data"
    /\ installed.props[k].value = GetValue(heap, SubTreeOf(heap, k), k)
    /\ installed.props[k].value \in {"fs:" \o k, "os:" \o k, "envNs"}

\* Property g of the namespace as installed is a getter without a setter that
\* reads os.g when called; no value was copied when it was installed.
InstalledAsGetter(g) ==
    /\ g \in DOMAIN installed.props
    /\ installed.props[g].kind = "accessor"
    /\ installed.props[g].get = "get:" \o g
    /\ installed.props[g].set = Absent
    /\ installed.props[g].value = Absent
    /\ CallGetter(heap, installed.props[g].get) =
          GetValue(heap, GetValue(heap, Bridge(heap), "os"), g)

C22_SetupFailsWithoutRoot ==
    /\ \A mod \in Modules :
          (bootSetup[mod] # "pending" /\ ~(RootsUsed(mod) \subseteq bootSeen[mod])) =>
              bootSetup[mod] = "TypeError"
    /\ bootCall.status # "TypeError"

(***************************************************************************)
(* Claims about the components of a URL.                                   *)
(***************************************************************************)
ComponentSet == compSet.times > 0

\* The assigned component reads back as the assigned value, normalised, the
\* serialization is that of the components it parses to, and the second
\* assignment of the same value changed nothing.
ReadsBackAndSerializes ==
    /\ GetComponent(compHref, compSet.name) = Normalised(compSet.name, compSet.value)
    /\ compHref = Serialize(ParseComponents(compHref))
    /\ compSet.times = 2 => compHref = compSet.once
    /\ (compSet.before = ExamplePath /\ compSet.name = "port"
           /\ compSet.value = Str(<<"3", "0", "0", "0">>)) =>
          compHref = Str(<<"h", "t", "t", "p", "s", ":", "/", "/", "e", "x", "a", "m",
                           "p", "l", "e", ".", "c", "o", "m", ":", "3", "0", "0", "0",
                           "/", "p", "a", "t", "h">>)

WrittenBy(name) ==
    IF name = "host" THEN {"host", "hostname", "port"}
    ELSE IF name \in {"hostname", "port"} THEN {name, "host"}
    ELSE {name}

==============================================================================
